---------------------------- MODULE Spec2Model ----------------------------
(***************************************************************************)
(* Route processor (Chinese Postman pipeline) of the trash-collection      *)
(* route planner, together with the part of Home.handleGenerate that       *)
(* drives it.  The repository holds two revisions of the route processor;  *)
(* rev = 1 is the revision with getOddDegreeNodes / minimumWeightMatching  *)
(* / createMultigraph / findEulerianCircuit, rev = 2 the revision with     *)
(* hierholzerWithTurnPreference and the two fatal errors.                  *)
(*                                                                         *)
(* JavaScript Maps and Sets iterate in insertion order, so every Map or    *)
(* Set whose order the code depends on is a sequence of keys here.         *)
(***************************************************************************)
EXTENDS Integers, Sequences, FiniteSets, TLC

\* ------------------------------------------------------------------ bounds
\* Largest number of filtered segments (ways) in one input.
MaxWays == 2

\* ------------------------------------------------------- sentinels of JS
\* Number.POSITIVE_INFINITY: larger than every path length of the model.
Infinity == 1000000
\* `undefined` as a vertex id (Array.from(keys)[0] of an empty Map).
Undefined == 0
\* findNearestNode's "none found" result.
NoNode == -1

\* ---------------------------------------------------------- vertex table
(* The vertex table handed to buildGraph: four registered vertices on the  *)
(* corners N, E, S, W of a square, in units of 0.001 degree near the       *)
(* equator.  Vertex 5 occurs in segments but is not registered.            *)
RegisteredNodes == {1, 2, 3, 4}
NodeIds == RegisteredNodes \cup {5}

NodeLat(n) == CASE n = 1 -> 1 [] n = 2 -> 0 [] n = 3 -> -1 [] OTHER -> 0
NodeLon(n) == CASE n = 1 -> 0 [] n = 2 -> 1 [] n = 3 -> 0 [] OTHER -> -1

\* Metres per coordinate unit (0.001 degree of arc is about 111 m; 100 keeps
\* the arithmetic readable and does not change any comparison).
MetresPerUnit == 100

Abs(x) == IF x < 0 THEN -x ELSE x

\* the integer square root of n, found by bisection of lo..hi
RECURSIVE ISqrtBetween(_, _, _)
ISqrtBetween(n, lo, hi) ==
    IF lo >= hi
    THEN lo
    ELSE LET mid == (lo + hi + 1) \div 2
         IN  IF mid * mid <= n
             THEN ISqrtBetween(n, mid, hi)
             ELSE ISqrtBetween(n, lo, mid - 1)
ISqrt(n) == ISqrtBetween(n, 0, 4 * MetresPerUnit)

(* haversineDistance on the vertex table: at this scale the great-circle   *)
(* distance is the planar distance, rounded down to whole metres.          *)
haversineDistance(lat1, lon1, lat2, lon2) ==
    ISqrt(MetresPerUnit * MetresPerUnit *
          ((lat2 - lat1) * (lat2 - lat1) + (lon2 - lon1) * (lon2 - lon1)))

(* calculateBearing: atan2(x, y) in degrees, then (bearing + 360) % 360.   *)
(* On the vertex table every direction is a multiple of 45 degrees.        *)
calculateBearing(lat1, lon1, lat2, lon2) ==
    LET dlat == lat2 - lat1
        dlon == lon2 - lon1
    IN  CASE dlon = 0 /\ dlat >= 0 -> 0
          [] dlon > 0 /\ dlat = dlon -> 45
          [] dlon > 0 /\ dlat = 0 -> 90
          [] dlon > 0 /\ dlat = -dlon -> 135
          [] dlon = 0 /\ dlat < 0 -> 180
          [] dlon < 0 /\ dlat = dlon -> 225
          [] dlon < 0 /\ dlat = 0 -> 270
          [] dlon < 0 /\ dlat = -dlon -> 315
          [] OTHER -> 0

\* ------------------------------------------------------------ sequences
(* In the loops below, a test `x = x` before a recursive call only makes   *)
(* TLC evaluate the accumulator x before it descends; it is always true.   *)
SeqToSet(s) == {s[i] : i \in 1..Len(s)}
InSeq(x, s) == \E i \in 1..Len(s) : s[i] = x
RemoveAt(s, i) == SubSeq(s, 1, i - 1) \o SubSeq(s, i + 1, Len(s))
Reverse(s) == [i \in 1..Len(s) |-> s[Len(s) + 1 - i]]
Last(s) == s[Len(s)]
Front(s) == SubSeq(s, 1, Len(s) - 1)

\* ------------------------------------------------------------------ graph
(* interface Graph { adjacency: Map<number, Array<{to, key, data}>>;       *)
(*                   nodes: Map<number, OSMNode>; edgeCount }              *)
(* nodes and adjKeys are the key orders of the two Maps; adj holds the     *)
(* arrays.  An arc carries data.from/length/bearing/wayId inline.          *)
EmptyGraph == [nodes |-> <<>>, adjKeys |-> <<>>, adj |-> <<>>, edgeCount |-> 0]
\* a Graph variable that has not been assigned yet
NoGraph == [nodes |-> <<>>, adjKeys |-> <<>>, adj |-> <<>>, edgeCount |-> -1]

\* graph.adjacency.get(node) || []
EdgesOf(g, n) == IF InSeq(n, g.adjKeys) THEN g.adj[n] ELSE <<>>

\* if (!adjacency.has(u)) adjacency.set(u, []); adjacency.get(u).push(arc)
AdjPush(g, u, arc) ==
    IF InSeq(u, g.adjKeys)
    THEN [g EXCEPT !.adj = [g.adj EXCEPT ![u] = Append(@, arc)]]
    ELSE [g EXCEPT !.adjKeys = Append(@, u),
                   !.adj = (u :> <<arc>>) @@ g.adj]

\* graphNodes.set(u, nodeU): a Map keeps the first insertion position.
NodeSet(g, u) ==
    IF InSeq(u, g.nodes) THEN g ELSE [g EXCEPT !.nodes = Append(@, u)]

\* variant of AddPair: the reverse arc depends on the one-way tag alone
AddPairTagOnly(g, way, u, v, ignoreOneways) ==
    IF u \notin RegisteredNodes \/ v \notin RegisteredNodes
    THEN g
    ELSE LET length == haversineDistance(NodeLat(u), NodeLon(u), NodeLat(v), NodeLon(v))
             bearing == calculateBearing(NodeLat(u), NodeLon(u), NodeLat(v), NodeLon(v))
             g1 == NodeSet(NodeSet(g, u), v)
             fwd == [to |-> v, key |-> g1.edgeCount, from |-> u, length |-> length,
                     bearing |-> bearing, wayId |-> way.id]
             g2 == [AdjPush(g1, u, fwd) EXCEPT !.edgeCount = @ + 1]
             rev == [to |-> u, key |-> g2.edgeCount, from |-> v, length |-> length,
                     bearing |-> (bearing + 180) % 360, wayId |-> way.id]
         IN  IF ~way.oneway
             THEN [AdjPush(g2, v, rev) EXCEPT !.edgeCount = @ + 1]
             ELSE g2

\* variant of AddPair: the vertices found in the table are registered before the test
AddPairRegisterFirst(g, way, u, v, ignoreOneways) ==
    LET gu == IF u \in RegisteredNodes THEN NodeSet(g, u) ELSE g
        g1 == IF v \in RegisteredNodes THEN NodeSet(gu, v) ELSE gu
    IN  IF u \notin RegisteredNodes \/ v \notin RegisteredNodes
        THEN g1
        ELSE LET length == haversineDistance(NodeLat(u), NodeLon(u), NodeLat(v), NodeLon(v))
                 bearing == calculateBearing(NodeLat(u), NodeLon(u), NodeLat(v), NodeLon(v))
                 fwd == [to |-> v, key |-> g1.edgeCount, from |-> u, length |-> length,
                         bearing |-> bearing, wayId |-> way.id]
                 g2 == [AdjPush(g1, u, fwd) EXCEPT !.edgeCount = @ + 1]
                 rev == [to |-> u, key |-> g2.edgeCount, from |-> v, length |-> length,
                         bearing |-> (bearing + 180) % 360, wayId |-> way.id]
             IN  IF ignoreOneways \/ ~way.oneway
                 THEN [AdjPush(g2, v, rev) EXCEPT !.edgeCount = @ + 1]
                 ELSE g2

(* Body of buildGraph's inner loop for the consecutive pair (u, v) of      *)
(* segment `way`; g.edgeCount is the running edgeKey.                      *)
AddPair(g, way, u, v, ignoreOneways) ==
    IF u \notin RegisteredNodes \/ v \notin RegisteredNodes
    THEN g
    ELSE LET length == haversineDistance(NodeLat(u), NodeLon(u), NodeLat(v), NodeLon(v))
             bearing == calculateBearing(NodeLat(u), NodeLon(u), NodeLat(v), NodeLon(v))
             g1 == NodeSet(NodeSet(g, u), v)
             fwd == [to |-> v, key |-> g1.edgeCount, from |-> u, length |-> length,
                     bearing |-> bearing, wayId |-> way.id]
             g2 == [AdjPush(g1, u, fwd) EXCEPT !.edgeCount = @ + 1]
             rev == [to |-> u, key |-> g2.edgeCount, from |-> v, length |-> length,
                     bearing |-> (bearing + 180) % 360, wayId |-> way.id]
         IN  IF ignoreOneways \/ ~way.oneway
             THEN [AdjPush(g2, v, rev) EXCEPT !.edgeCount = @ + 1]
             ELSE g2

RECURSIVE AddWay(_, _, _, _)
AddWay(g, way, i, ignoreOneways) ==
    IF i > Len(way.nodes) - 1
    THEN g
    ELSE LET g1 == AddPair(g, way, way.nodes[i], way.nodes[i + 1], ignoreOneways)
         IN  IF g1 = g1 THEN AddWay(g1, way, i + 1, ignoreOneways) ELSE g1

RECURSIVE AddWays(_, _, _, _)
AddWays(g, ways, w, ignoreOneways) ==
    IF w > Len(ways)
    THEN g
    ELSE LET g1 == AddWay(g, ways[w], 1, ignoreOneways)
         IN  IF g1 = g1 THEN AddWays(g1, ways, w + 1, ignoreOneways) ELSE g1

buildGraph(ways, ignoreOneways) == AddWays(EmptyGraph, ways, 1, ignoreOneways)

\* ------------------------------------------------- connectivity reducer
(* dfs1 of findLargestSCC: st = [visited |-> set, finished |-> sequence].  *)
(* Dfs1Edges is the `for (const edge of edges)` loop from index i on.      *)
RECURSIVE dfs1(_, _, _), Dfs1Edges(_, _, _, _)
dfs1(g, node, st) ==
    LET after == Dfs1Edges(g, EdgesOf(g, node), 1,
                           [st EXCEPT !.visited = @ \cup {node}])
    IN  [after EXCEPT !.finished = Append(@, node)]
Dfs1Edges(g, edges, i, st) ==
    IF i > Len(edges)
    THEN st
    ELSE IF edges[i].to \in st.visited
         THEN Dfs1Edges(g, edges, i + 1, st)
         ELSE LET st1 == dfs1(g, edges[i].to, st)
              IN  IF st1 = st1 THEN Dfs1Edges(g, edges, i + 1, st1) ELSE st1

\* for (const node of nodes) if (!visited.has(node)) dfs1(node)
RECURSIVE FirstPass(_, _, _)
FirstPass(g, i, st) ==
    IF i > Len(g.nodes)
    THEN st
    ELSE IF g.nodes[i] \in st.visited
         THEN FirstPass(g, i + 1, st)
         ELSE LET st1 == dfs1(g, g.nodes[i], st)
              IN  IF st1 = st1 THEN FirstPass(g, i + 1, st1) ELSE st1

\* variant of reverseAdj: the second pass walks the arcs forwards
forwardAdj(g, n) == [i \in 1..Len(EdgesOf(g, n)) |-> EdgesOf(g, n)[i].to]

(* reverseAdj.get(n) || []: the origins of the arcs into n, in the order   *)
(* the adjacency entries and their arrays are walked.                      *)
RECURSIVE RevFromEdges(_, _, _, _)
RevFromEdges(from, edges, i, n) ==
    IF i > Len(edges)
    THEN <<>>
    ELSE (IF edges[i].to = n THEN <<from>> ELSE <<>>) \o RevFromEdges(from, edges, i + 1, n)
RECURSIVE RevFromKeys(_, _, _)
RevFromKeys(g, k, n) ==
    IF k > Len(g.adjKeys)
    THEN <<>>
    ELSE RevFromEdges(g.adjKeys[k], g.adj[g.adjKeys[k]], 1, n) \o RevFromKeys(g, k + 1, n)
reverseAdj(g, n) == RevFromKeys(g, 1, n)

(* dfs2: st = [visited |-> set, component |-> sequence]; a Set iterates in *)
(* insertion order, so the component is kept as a sequence.                *)
RECURSIVE dfs2(_, _, _), Dfs2Neighbors(_, _, _, _)
dfs2(g, node, st) ==
    Dfs2Neighbors(g, reverseAdj(g, node), 1,
                  [visited |-> st.visited \cup {node},
                   component |-> Append(st.component, node)])
Dfs2Neighbors(g, neighbors, i, st) ==
    IF i > Len(neighbors)
    THEN st
    ELSE IF neighbors[i] \in st.visited
         THEN Dfs2Neighbors(g, neighbors, i + 1, st)
         ELSE LET st1 == dfs2(g, neighbors[i], st)
              IN  IF st1 = st1 THEN Dfs2Neighbors(g, neighbors, i + 1, st1) ELSE st1

(* Second pass: the vertices in reverse finish order (finished.reverse()   *)
(* in revision 1, finished.pop() in revision 2: the same order).           *)
RECURSIVE SecondPass(_, _, _, _, _)
SecondPass(g, order, i, visited, components) ==
    IF i > Len(order)
    THEN components
    ELSE IF order[i] \in visited
         THEN SecondPass(g, order, i + 1, visited, components)
         ELSE LET r == dfs2(g, order[i], [visited |-> visited, component |-> <<>>])
              IN  IF r = r
                  THEN SecondPass(g, order, i + 1, r.visited, Append(components, r.component))
                  ELSE components

\* the `components` array of findLargestSCC, in discovery order
Components(g) ==
    LET finished == FirstPass(g, 1, [visited |-> {}, finished |-> <<>>]).finished
    IN  SecondPass(g, Reverse(finished), 1, {}, <<>>)

(* Revision 2: components.reduce((a, b) => a.size > b.size ? a : b,        *)
(* new Set()): the accumulator a is kept only when strictly larger.        *)
RECURSIVE LargestReduce(_, _, _)
LargestReduce(components, i, a) ==
    IF i > Len(components)
    THEN a
    ELSE LargestReduce(components, i + 1,
                       IF Len(a) > Len(components[i]) THEN a ELSE components[i])
largestComponent2(components) == LargestReduce(components, 1, <<>>)

(* Revision 1: largestComponent = components[0] || new Set(); replaced    *)
(* only by a strictly larger component.                                    *)
RECURSIVE LargestScan(_, _, _)
LargestScan(components, i, largest) ==
    IF i > Len(components)
    THEN largest
    ELSE LargestScan(components, i + 1,
                     IF Len(components[i]) > Len(largest) THEN components[i] ELSE largest)
\* variant of largestComponent1: `>=` in place of `>`, a later tie replaces an earlier one
largestComponentGE(components) ==
    LargestReduce(components, 1, <<>>)

largestComponent1(components) ==
    LargestScan(components, 1, IF Len(components) > 0 THEN components[1] ELSE <<>>)

\* variant of FilterEdges: the arcs that leave the component are kept
FilterEdgesKeepAll(edges, comp) == edges

\* edges.filter(e => largestComponent.has(e.to))
FilterEdges(edges, comp) == SelectSeq(edges, LAMBDA e : InSeq(e.to, comp))

(* Subgraph of revision 1: walks graph.adjacency.entries(), keeps the      *)
(* origins inside the component whose filtered array is not empty.         *)
RECURSIVE SubAdj1(_, _, _, _)
SubAdj1(g, comp, k, acc) ==
    IF k > Len(g.adjKeys)
    THEN acc
    ELSE LET from == g.adjKeys[k]
             filteredEdges == FilterEdges(g.adj[from], comp)
             acc1 == IF InSeq(from, comp) /\ Len(filteredEdges) > 0
                     THEN [acc EXCEPT !.adjKeys = Append(@, from),
                                      !.adj = (from :> filteredEdges) @@ acc.adj,
                                      !.edgeCount = @ + Len(filteredEdges)]
                     ELSE acc
         IN  IF acc1 = acc1 THEN SubAdj1(g, comp, k + 1, acc1) ELSE acc1

(* Subgraph of revision 2: walks the component itself.                     *)
RECURSIVE SubAdj2(_, _, _, _)
SubAdj2(g, comp, k, acc) ==
    IF k > Len(comp)
    THEN acc
    ELSE LET nodeId == comp[k]
             filteredEdges == FilterEdges(EdgesOf(g, nodeId), comp)
             acc1 == IF InSeq(nodeId, g.nodes) THEN [acc EXCEPT !.nodes = Append(@, nodeId)] ELSE acc
             acc2 == IF Len(filteredEdges) > 0
                     THEN [acc1 EXCEPT !.adjKeys = Append(@, nodeId),
                                       !.adj = (nodeId :> filteredEdges) @@ acc1.adj,
                                       !.edgeCount = @ + Len(filteredEdges)]
                     ELSE acc1
         IN  IF acc2 = acc2 THEN SubAdj2(g, comp, k + 1, acc2) ELSE acc2

findLargestSCC1(g) ==
    LET components == Components(g)
        largest == largestComponent1(components)
        sub == SubAdj1(g, largest, 1, EmptyGraph)
    IN  [subgraph |-> [sub EXCEPT !.nodes = SelectSeq(largest, LAMBDA n : InSeq(n, g.nodes))],
         componentCount |-> Len(components)]

findLargestSCC2(g) ==
    LET components == Components(g)
        largest == largestComponent2(components)
    IN  [subgraph |-> SubAdj2(g, largest, 1, EmptyGraph),
         componentCount |-> Len(components)]

findLargestSCC(rev, g) == IF rev = 1 THEN findLargestSCC1(g) ELSE findLargestSCC2(g)

\* ------------------------------------------------------ degree balancer
Degree(g, n) == Len(EdgesOf(g, n))

(* getOddDegreeNodes: the degrees Map receives the adjacency keys first    *)
(* and then the vertices without an adjacency entry; the odd ones are      *)
(* returned in that order.                                                 *)
getOddDegreeNodes(g) ==
    LET order == g.adjKeys \o SelectSeq(g.nodes, LAMBDA n : ~InSeq(n, g.adjKeys))
    IN  SelectSeq(order, LAMBDA n : Degree(g, n) % 2 = 1)

\* `x || Infinity`: 0 and undefined are both falsy.
OrInfinity(x) == IF x = 0 THEN Infinity ELSE x
\* distances.get(node), undefined (falsy, modelled as 0) when absent
MapGet(m, k) == IF k \in DOMAIN m THEN m[k] ELSE 0
\* Infinity + length = Infinity
Plus(a, b) == IF a >= Infinity THEN Infinity ELSE a + b

(* The selection loop of dijkstra over the unvisited Set: best is          *)
(* [current, minDistance], starting from [-1, Infinity].                   *)
RECURSIVE SelectCurrent(_, _, _, _)
SelectCurrent(distances, unvisited, i, best) ==
    IF i > Len(unvisited)
    THEN best
    ELSE LET dist == OrInfinity(MapGet(distances, unvisited[i]))
         IN  SelectCurrent(distances, unvisited, i + 1,
                           IF dist < best.minDistance
                           THEN [current |-> unvisited[i], minDistance |-> dist]
                           ELSE best)

\* the relaxation loop over the arcs of `current`; st = [distances, previous]
RECURSIVE Relax(_, _, _, _, _)
Relax(edges, i, current, unvisited, st) ==
    IF i > Len(edges)
    THEN st
    ELSE LET to == edges[i].to
             newDist == Plus(OrInfinity(MapGet(st.distances, current)), edges[i].length)
             st1 == IF InSeq(to, unvisited) /\ newDist < OrInfinity(MapGet(st.distances, to))
                    THEN [distances |-> (to :> newDist) @@ st.distances,
                          previous |-> (to :> current) @@ st.previous]
                    ELSE st
         IN  IF st1 = st1 THEN Relax(edges, i + 1, current, unvisited, st1) ELSE st1

\* while (unvisited.size > 0) { ... }
RECURSIVE DijkstraLoop(_, _, _, _)
DijkstraLoop(g, end, unvisited, st) ==
    IF Len(unvisited) = 0
    THEN st
    ELSE LET best == SelectCurrent(st.distances, unvisited, 1,
                                   [current |-> NoNode, minDistance |-> Infinity])
             current == best.current
             rest == SelectSeq(unvisited, LAMBDA n : n # current)
         IN  IF current = NoNode \/ current = end
             THEN st
             ELSE LET st1 == Relax(EdgesOf(g, current), 1, current, rest, st)
                  IN  IF st1 = st1 THEN DijkstraLoop(g, end, rest, st1) ELSE st1

\* while (previous.has(current)) { path.unshift(current); current = previous.get(current) }
RECURSIVE PathBack(_, _, _)
PathBack(previous, current, path) ==
    IF current \in DOMAIN previous
    THEN PathBack(previous, previous[current], <<current>> \o path)
    ELSE path

dijkstra(g, start, end) ==
    LET init == [distances |-> (start :> 0) @@ [n \in SeqToSet(g.nodes) |-> Infinity],
                 previous |-> <<>>]
        st == DijkstraLoop(g, end, g.nodes, init)
    IN  [path |-> <<start>> \o PathBack(st.previous, end, <<>>),
         distance |-> OrInfinity(MapGet(st.distances, end))]

\* inner loop of minimumWeightMatching: best = [bestJ, bestDistance]
RECURSIVE BestPartner(_, _, _, _, _, _)
BestPartner(g, oddNodes, i, j, matched, best) ==
    IF j > Len(oddNodes)
    THEN best
    ELSE IF oddNodes[j] \in matched
         THEN BestPartner(g, oddNodes, i, j + 1, matched, best)
         ELSE LET distance == dijkstra(g, oddNodes[i], oddNodes[j]).distance
              IN  BestPartner(g, oddNodes, i, j + 1, matched,
                              IF distance < best.bestDistance
                              THEN [bestJ |-> j, bestDistance |-> distance]
                              ELSE best)

\* outer loop of minimumWeightMatching: st = [matching, matched]
RECURSIVE MatchLoop(_, _, _, _)
MatchLoop(g, oddNodes, i, st) ==
    IF i > Len(oddNodes)
    THEN st
    ELSE IF oddNodes[i] \in st.matched
         THEN MatchLoop(g, oddNodes, i + 1, st)
         ELSE LET best == BestPartner(g, oddNodes, i, i + 1, st.matched,
                                      [bestJ |-> NoNode, bestDistance |-> Infinity])
              IN  IF best.bestJ # NoNode
                  THEN MatchLoop(g, oddNodes, i + 1,
                                 [matching |-> Append(st.matching, <<oddNodes[i], oddNodes[best.bestJ]>>),
                                  matched |-> st.matched \cup {oddNodes[i], oddNodes[best.bestJ]}])
                  ELSE MatchLoop(g, oddNodes, i + 1, st)

minimumWeightMatching(g, oddNodes) ==
    MatchLoop(g, oddNodes, 1, [matching |-> <<>>, matched |-> {}]).matching

\* "Copy original edges": every arc gets a fresh key, counted from 0
RECURSIVE CopyEdges(_, _, _)
CopyEdges(g, k, acc) ==
    IF k > Len(g.adjKeys)
    THEN acc
    ELSE LET from == g.adjKeys[k]
             edgesCopy == [i \in 1..Len(g.adj[from]) |->
                              [g.adj[from][i] EXCEPT !.key = acc.edgeCount + i - 1]]
             acc1 == [acc EXCEPT !.adjKeys = Append(@, from),
                                 !.adj = (from :> edgesCopy) @@ acc.adj,
                                 !.edgeCount = @ + Len(edgesCopy)]
         IN  IF acc1 = acc1 THEN CopyEdges(g, k + 1, acc1) ELSE acc1

\* edges.find(e => e.to === to): index of the first such arc, 0 when none
FindTo(edges, to) ==
    IF \E i \in 1..Len(edges) : edges[i].to = to
    THEN CHOOSE i \in 1..Len(edges) :
            edges[i].to = to /\ \A j \in 1..(i - 1) : edges[j].to # to
    ELSE 0

\* the duplicate arcs along one path
RECURSIVE AddPath(_, _, _, _)
AddPath(g, path, i, acc) ==
    IF i > Len(path) - 1
    THEN acc
    ELSE LET from == path[i]
             to == path[i + 1]
             idx == FindTo(EdgesOf(g, from), to)
             acc1 == IF idx # 0
                     THEN [AdjPush(acc, from, [EdgesOf(g, from)[idx] EXCEPT !.key = acc.edgeCount])
                              EXCEPT !.edgeCount = @ + 1]
                     ELSE acc
         IN  IF acc1 = acc1 THEN AddPath(g, path, i + 1, acc1) ELSE acc1

\* "Add matching edges"
RECURSIVE AddMatching(_, _, _, _)
AddMatching(g, matching, m, acc) ==
    IF m > Len(matching)
    THEN acc
    ELSE LET acc1 == AddPath(g, dijkstra(g, matching[m][1], matching[m][2]).path, 1, acc)
         IN  IF acc1 = acc1 THEN AddMatching(g, matching, m + 1, acc1) ELSE acc1

createMultigraph(g, matching) ==
    LET copied == CopyEdges(g, 1, EmptyGraph)
    IN  [AddMatching(g, matching, 1, copied) EXCEPT !.nodes = g.nodes]

\* ------------------------------------------------------------ start vertex
\* a start coordinate that was not supplied
NoStart == <<>>

\* findNearestNode (revision 1): NoNode when the graph has no vertex
RECURSIVE NearestScan(_, _, _, _, _)
NearestScan(nodes, i, lat, lon, best) ==
    IF i > Len(nodes)
    THEN best
    ELSE LET distance == haversineDistance(lat, lon, NodeLat(nodes[i]), NodeLon(nodes[i]))
         IN  NearestScan(nodes, i + 1, lat, lon,
                         IF distance < best.minDistance
                         THEN [node |-> nodes[i], minDistance |-> distance]
                         ELSE best)
findNearestNode(g, startPoint) ==
    NearestScan(g.nodes, 1, startPoint[1], startPoint[2],
                [node |-> NoNode, minDistance |-> Infinity]).node

\* findClosestNode (revision 2): starts from the first vertex of the Map
findClosestNode(g, targetLat, targetLon) ==
    NearestScan(g.nodes, 1, targetLat, targetLon,
                [node |-> IF Len(g.nodes) > 0 THEN g.nodes[1] ELSE Undefined,
                 minDistance |-> Infinity]).node

RECURSIVE SumSeq(_, _)
SumSeq(s, i) == IF i > Len(s) THEN 0 ELSE s[i] + SumSeq(s, i + 1)

(* findCentroidNode: the centroid is (sumLat / count, sumLon / count); to  *)
(* stay in the integers every coordinate is multiplied by count, which     *)
(* scales all distances by count and keeps their order.                    *)
RECURSIVE CentroidScan(_, _, _, _, _, _)
CentroidScan(nodes, i, sumLat, sumLon, count, best) ==
    IF i > Len(nodes)
    THEN best
    ELSE LET dist == haversineDistance(sumLat, sumLon,
                                       count * NodeLat(nodes[i]), count * NodeLon(nodes[i]))
         IN  CentroidScan(nodes, i + 1, sumLat, sumLon, count,
                          IF dist < best.minDist
                          THEN [node |-> nodes[i], minDist |-> dist]
                          ELSE best)
findCentroidNode(g) ==
    CentroidScan(g.nodes, 1,
                 SumSeq([i \in 1..Len(g.nodes) |-> NodeLat(g.nodes[i])], 1),
                 SumSeq([i \in 1..Len(g.nodes) |-> NodeLon(g.nodes[i])], 1),
                 Len(g.nodes),
                 [node |-> IF Len(g.nodes) > 0 THEN g.nodes[1] ELSE Undefined,
                  minDist |-> Infinity]).node

\* --------------------------------------------------------- circuit builder
\* interface TurnPenaltyConfig; the default of processRoute
DefaultPenalties == [straight |-> 0, rightTurn |-> 10, leftTurn |-> 50, uTurn |-> 500]

\* incomingBearing: null
NoBearing == -1

\* variant of NormalizeAngle: the second loop is missing
NormalizeAngleUpperOnly(a) == IF a > 180 THEN a - 360 ELSE a

\* while (turnAngle > 180) turnAngle -= 360; while (turnAngle < -180) turnAngle += 360
RECURSIVE NormalizeAngle(_)
NormalizeAngle(a) ==
    IF a > 180 THEN NormalizeAngle(a - 360)
    ELSE IF a < -180 THEN NormalizeAngle(a + 360)
    ELSE a

\* variant of calculateTurnScore: a turn of exactly 150 degrees is a U-turn
calculateTurnScoreInclusive(incomingBearing, outgoingBearing, penalties) ==
    LET turnAngle == NormalizeAngle(outgoingBearing - incomingBearing)
        absTurn == Abs(turnAngle)
    IN  IF absTurn >= 150 THEN 500 + (absTurn - 150) + penalties.uTurn
        ELSE IF absTurn <= 20 THEN absTurn + penalties.straight
        ELSE IF turnAngle > 0 THEN 20 + turnAngle + penalties.rightTurn
        ELSE 160 + absTurn + penalties.leftTurn

calculateTurnScore(incomingBearing, outgoingBearing, penalties) ==
    LET turnAngle == NormalizeAngle(outgoingBearing - incomingBearing)
        absTurn == Abs(turnAngle)
    IN  IF absTurn > 150 THEN 500 + (absTurn - 150) + penalties.uTurn
        ELSE IF absTurn <= 20 THEN absTurn + penalties.straight
        ELSE IF turnAngle > 0 THEN 20 + turnAngle + penalties.rightTurn
        ELSE 160 + absTurn + penalties.leftTurn

\* variant of CopyAdjacency: remainingEdges.set(node, edges), the graph's own arrays
CopyAdjacencyShared(g) ==
    [n \in SeqToSet(g.adjKeys) |-> [shared |-> TRUE, list |-> g.adj[n]]]

(* The working copy of the adjacency Map: remainingEdges.set(node,         *)
(* [...edges]).  `shared` tells whether the array stored in the working    *)
(* copy is the very array object of the graph (it is not: the spread       *)
(* allocates a new array holding the same arcs).                           *)
CopyAdjacency(g) ==
    [n \in SeqToSet(g.adjKeys) |-> [shared |-> FALSE, list |-> g.adj[n]]]

\* remainingEdges.get(node) || []
Remaining(remainingEdges, n) ==
    IF n \in DOMAIN remainingEdges THEN remainingEdges[n].list ELSE <<>>

\* edges.map(edge => ({ edge, score: calculateTurnScore(...) }))
ScoreEdges(edges, incomingBearing, penalties) ==
    [i \in 1..Len(edges) |->
        [edge |-> edges[i],
         score |-> calculateTurnScore(incomingBearing, edges[i].bearing, penalties)]]

\* variant of InsertByScore: the entry goes in front of the entries of equal score
InsertByScoreBeforeTies(sorted, e) ==
    LET k == Cardinality({i \in 1..Len(sorted) : sorted[i].score < e.score})
    IN  SubSeq(sorted, 1, k) \o <<e>> \o SubSeq(sorted, k + 1, Len(sorted))

(* One insertion of the sort by (a, b) => a.score - b.score.  The sort of  *)
(* Array.prototype.sort is stable: an entry goes behind the entries of     *)
(* lower or equal score that precede it.                                   *)
InsertByScore(sorted, e) ==
    LET k == Cardinality({i \in 1..Len(sorted) : sorted[i].score <= e.score})
    IN  SubSeq(sorted, 1, k) \o <<e>> \o SubSeq(sorted, k + 1, Len(sorted))

\* edgesWithScore.sort((a, b) => a.score - b.score)
RECURSIVE SortByScore(_, _, _)
SortByScore(list, i, sorted) ==
    IF i > Len(list)
    THEN sorted
    ELSE SortByScore(list, i + 1, InsertByScore(sorted, list[i]))

\* edges.findIndex(e => e.key === key), one-based; 0 stands for -1
FindIndexByKey(edges, key) ==
    IF \E i \in 1..Len(edges) : edges[i].key = key
    THEN CHOOSE i \in 1..Len(edges) :
            /\ edges[i].key = key
            /\ \A j \in 1..(i - 1) : edges[j].key # key
    ELSE 0

(* Index of the arc hierholzerWithTurnPreference selects: the first entry  *)
(* of the sorted scores when an incoming bearing is known and more than    *)
(* one arc remains, edges[0] otherwise; then findIndex by its key.         *)
SelectIndex(edges, incomingBearing, penalties) ==
    LET selectedEdge ==
            IF incomingBearing # NoBearing /\ Len(edges) > 1
            THEN SortByScore(ScoreEdges(edges, incomingBearing, penalties), 1, <<>>)[1].edge
            ELSE edges[1]
    IN  FindIndexByKey(edges, selectedEdge.key)

(* Removal of the arc at index idx from the array the working copy holds   *)
(* for `node`; b = [graph, remainingEdges].  A shared array is the graph's *)
(* own array, so removing from it removes from the graph as well.          *)
Consume(b, node, idx) ==
    [graph |-> IF b.remainingEdges[node].shared
               THEN [b.graph EXCEPT !.adj = [b.graph.adj EXCEPT ![node] = RemoveAt(@, idx)]]
               ELSE b.graph,
     remainingEdges |-> [b.remainingEdges EXCEPT ![node].list = RemoveAt(@, idx)]]

(* One iteration of the while loop of hierholzerWithTurnPreference;        *)
(* b = [graph, remainingEdges, stack, circuit].                            *)
hierholzerWithTurnPreference(b, penalties) ==
    LET top == Last(b.stack)
        edges == Remaining(b.remainingEdges, top.node)
    IN  IF Len(edges) > 0
        THEN LET idx == SelectIndex(edges, top.incomingBearing, penalties)
                 c == Consume(b, top.node, idx)
             IN  [graph |-> c.graph,
                  remainingEdges |-> c.remainingEdges,
                  stack |-> Append(b.stack, [node |-> edges[idx].to,
                                             incomingBearing |-> edges[idx].bearing]),
                  circuit |-> b.circuit]
        ELSE [b EXCEPT !.stack = Front(b.stack),
                       !.circuit = Append(b.circuit, top.node)]

(* One iteration of the while loop of findEulerianCircuit: currentEdges   *)
(* .pop() takes the last remaining arc.  The stack entries carry no        *)
(* bearing in this revision.                                               *)
findEulerianCircuit(b) ==
    LET top == Last(b.stack)
        edges == Remaining(b.remainingEdges, top.node)
    IN  IF Len(edges) > 0
        THEN LET c == Consume(b, top.node, Len(edges))
             IN  [graph |-> c.graph,
                  remainingEdges |-> c.remainingEdges,
                  stack |-> Append(b.stack, [node |-> edges[Len(edges)].to,
                                             incomingBearing |-> NoBearing]),
                  circuit |-> b.circuit]
        ELSE [b EXCEPT !.stack = Front(b.stack),
                       !.circuit = Append(b.circuit, top.node)]

\* ------------------------------------------------------ statistics, export
\* variant of StatsLoop: a turn is counted when the bearing differs from lastCountedBearing
RECURSIVE StatsLoopSinceCounted(_, _, _, _)
StatsLoopSinceCounted(circuit, g, i, st) ==
    IF i > Len(circuit) - 1
    THEN st
    ELSE LET edges == EdgesOf(g, circuit[i])
             idx == FindTo(edges, circuit[i + 1])
         IN  IF idx = 0
             THEN StatsLoopSinceCounted(circuit, g, i + 1, st)
             ELSE LET bearing == edges[idx].bearing
                      counted == st.lastCountedBearing # NoBearing /\ bearing # st.lastCountedBearing
                      turnAngle == NormalizeAngle(bearing - st.lastCountedBearing)
                      absTurn == Abs(turnAngle)
                      st1 ==
                        [totalDistance |-> st.totalDistance + edges[idx].length,
                         traversals |-> st.traversals + 1,
                         uTurnCount |-> st.uTurnCount +
                             (IF counted /\ absTurn > 150 THEN 1 ELSE 0),
                         rightTurnCount |-> st.rightTurnCount +
                             (IF counted /\ absTurn <= 150 /\ turnAngle > 20 THEN 1 ELSE 0),
                         leftTurnCount |-> st.leftTurnCount +
                             (IF counted /\ absTurn <= 150 /\ turnAngle < -20 THEN 1 ELSE 0),
                         lastCountedBearing |->
                             IF st.prevBearing # NoBearing /\ bearing # st.prevBearing
                             THEN st.prevBearing ELSE st.lastCountedBearing,
                         prevBearing |-> bearing]
                  IN  IF st1 = st1 THEN StatsLoopSinceCounted(circuit, g, i + 1, st1) ELSE st1

(* The loop of calculateRouteStats; st holds the running totals,           *)
(* prevBearing and lastCountedBearing (NoBearing for null).                *)
RECURSIVE StatsLoop(_, _, _, _)
StatsLoop(circuit, g, i, st) ==
    IF i > Len(circuit) - 1
    THEN st
    ELSE LET edges == EdgesOf(g, circuit[i])
             idx == FindTo(edges, circuit[i + 1])
         IN  IF idx = 0
             THEN StatsLoop(circuit, g, i + 1, st)
             ELSE LET bearing == edges[idx].bearing
                      counted == st.lastCountedBearing # NoBearing /\ bearing # st.prevBearing
                      turnAngle == NormalizeAngle(bearing - st.lastCountedBearing)
                      absTurn == Abs(turnAngle)
                      st1 ==
                        [totalDistance |-> st.totalDistance + edges[idx].length,
                         traversals |-> st.traversals + 1,
                         uTurnCount |-> st.uTurnCount +
                             (IF counted /\ absTurn > 150 THEN 1 ELSE 0),
                         rightTurnCount |-> st.rightTurnCount +
                             (IF counted /\ absTurn <= 150 /\ turnAngle > 20 THEN 1 ELSE 0),
                         leftTurnCount |-> st.leftTurnCount +
                             (IF counted /\ absTurn <= 150 /\ turnAngle < -20 THEN 1 ELSE 0),
                         lastCountedBearing |->
                             IF st.prevBearing # NoBearing /\ bearing # st.prevBearing
                             THEN st.prevBearing ELSE st.lastCountedBearing,
                         prevBearing |-> bearing]
                  IN  IF st1 = st1 THEN StatsLoop(circuit, g, i + 1, st1) ELSE st1

\* distances stay in metres; km and minutes are fixed multiples of them
calculateRouteStats(circuit, g, includedWays, excludedWays, componentCount) ==
    LET st == StatsLoop(circuit, g, 1,
                        [totalDistance |-> 0, traversals |-> 0, uTurnCount |-> 0,
                         rightTurnCount |-> 0, leftTurnCount |-> 0,
                         lastCountedBearing |-> NoBearing, prevBearing |-> NoBearing])
    IN  [totalDistanceM |-> st.totalDistance,
         totalTraversals |-> st.traversals,
         nodeCount |-> Len(g.nodes),
         edgeCount |-> g.edgeCount,
         connectedComponents |-> componentCount,
         includedWays |-> includedWays,
         excludedWays |-> excludedWays,
         uTurnCount |-> st.uTurnCount,
         rightTurnCount |-> st.rightTurnCount,
         leftTurnCount |-> st.leftTurnCount]

\* circuit.map(id => nodes.get(id)).filter(node => node !== undefined)
getCircuitCoordinates(circuit, g) ==
    LET points == SelectSeq(circuit, LAMBDA n : InSeq(n, g.nodes))
    IN  [i \in 1..Len(points) |-> <<NodeLat(points[i]), NodeLon(points[i])>>]

\* `${number}`: the decimal digits of a number, as a sequence of characters
Digits == <<"0", "1", "2", "3", "4", "5", "6", "7", "8", "9">>
RECURSIVE NatToString(_)
NatToString(n) ==
    IF n < 10 THEN <<Digits[n + 1]>>
    ELSE NatToString(n \div 10) \o <<Digits[(n % 10) + 1]>>
NumberToString(n) == IF n < 0 THEN <<"-">> \o NatToString(-n) ELSE NatToString(n)

(* The generated file is a template literal; it is modelled as the         *)
(* sequence of pieces an XML reader meets in it: start tags, end tags and  *)
(* character data.  attrs holds the attribute values of a start tag (lat   *)
(* and lon of a trkpt) or the characters of a time.  The kind "stray" is a *)
(* `&` or `<` that starts neither a reference nor a tag.                   *)
Piece(kind, name, attrs) == [kind |-> kind, name |-> name, attrs |-> attrs]
Open(name) == Piece("open", name, <<>>)
Close(name) == Piece("close", name, <<>>)
Text(s) == Piece("text", s, <<>>)

(* Values of the `filename` parameter, each as the pieces its characters   *)
(* form once they stand in the file: the default name of Home, a name      *)
(* with an ampersand, a name with a `<`, and a name that spells a          *)
(* trackpoint element.                                                     *)
DefaultFilename == <<Text("trash_route")>>
Filenames ==
    { DefaultFilename,
      <<Text("north "), Piece("stray", "&", <<>>), Text(" south")>>,
      <<Text("zone"), Piece("stray", "<", <<>>), Text("5")>>,
      <<Piece("open", "trkpt", <<NumberToString(1), NumberToString(1)>>), Close("trkpt")>> }

(* generateGPX(filename, points) of revision 1; revision 2 receives the    *)
(* circuit and the vertex Map and filters the points itself, as            *)
(* getCircuitCoordinates does.  ${filename} is inserted as it is.          *)
generateGPX(filename, points, timestamp) ==
    <<Open("gpx"), Open("metadata"), Open("name")>> \o filename \o
    <<Close("name"),
      Open("desc"), Text("Trash collection route generated using Chinese Postman Problem algorithm"),
      Close("desc"),
      Open("time"), Piece("text", "toISOString", <<NumberToString(timestamp)>>), Close("time"),
      Close("metadata"),
      Open("trk"), Open("name"), Text("Trash Collection Route"), Close("name"),
      Open("desc"), Piece("text", "Generated on", <<NumberToString(timestamp)>>), Close("desc"),
      Open("trkseg")>> \o
    [i \in 1..(2 * Len(points)) |->
        IF i % 2 = 1
        THEN Piece("open", "trkpt", <<NumberToString(points[(i + 1) \div 2][1]),
                                      NumberToString(points[(i + 1) \div 2][2])>>)
        ELSE Close("trkpt")] \o
    <<Close("trkseg"), Close("trk"), Close("gpx")>>

\* -------------------------------------------------------------------- logs
\* createLog(message, type); the timestamp is not modelled
L(message, type) == [message |-> message, type |-> type]

\* the entries processRoute logs around parseOSMFile and filterWays
ParseLogs(rev) ==
    IF rev = 1
    THEN <<L("Parsing OSM file...", "info"), L("Found nodes and ways", "info"),
           L("Filtering ways...", "info"), L("Included and excluded ways", "success")>>
    ELSE <<L("Starting route generation...", "info"), L("Parsing OSM file...", "info"),
           L("Parsed nodes and ways", "success"), L("Filtering road segments...", "info"),
           L("Included and excluded ways", "info")>>

BuildLogs(rev) ==
    IF rev = 1
    THEN <<L("Building graph...", "info"), L("Graph has nodes and edges", "info")>>
    ELSE <<L("Building road network graph...", "info"),
           L("Graph built with nodes and edges", "success")>>

SCCLogs(rev) ==
    IF rev = 1
    THEN <<L("Finding largest connected component...", "info"),
           L("Found components, largest has nodes", "info")>>
    ELSE <<L("Analyzing network connectivity...", "info"),
           L("Found connected components", "info"),
           L("Largest component: nodes, edges", "success")>>

OddLogs ==
    <<L("Finding odd-degree nodes...", "info"), L("Found odd-degree nodes", "info")>>

\* variant of MatchingLogs: a warning for every odd vertex left without a partner
MatchingLogsWarn(oddNodes, pairs) ==
    <<L("Computing minimum weight matching...", "info")>> \o
    (IF \E i \in 1..Len(oddNodes) :
           \A m \in 1..Len(pairs) : oddNodes[i] # pairs[m][1] /\ oddNodes[i] # pairs[m][2]
     THEN <<L("No reachable partner for odd-degree node", "warning")>>
     ELSE <<>>) \o
    <<L("Computed matching with pairs", "info")>>

\* the entries processRoute logs around minimumWeightMatching
MatchingLogs(oddNodes, pairs) ==
    <<L("Computing minimum weight matching...", "info"),
      L("Computed matching with pairs", "info")>>

MultigraphLogs ==
    <<L("Creating Eulerian multigraph...", "info"), L("Multigraph has edges", "info")>>

\* the entries logged while the start vertex is chosen; found: the vertex is in the graph
StartLogs(rev, startPoint, found) ==
    IF rev = 1
    THEN IF startPoint = NoStart
         THEN <<>>
         ELSE <<L("Finding nearest node to start point...", "info")>> \o
              (IF found THEN <<L("Starting from node", "success")>> ELSE <<>>)
    ELSE IF startPoint # NoStart
         THEN <<L("Using custom start point", "info")>> \o
              (IF found THEN <<L("Nearest graph node", "success")>> ELSE <<>>)
         ELSE <<L("Calculating route start point (graph centroid)...", "info")>> \o
              (IF found THEN <<L("Start point", "success")>> ELSE <<>>)

BeginLogs(rev) ==
    IF rev = 1
    THEN <<L("Finding Eulerian circuit...", "info")>>
    ELSE <<L("Computing optimal route using Hierholzer algorithm...", "info"),
           L("Applying turn penalties for route optimization...", "info"),
           L("Turn penalties", "info")>>

EndLogs(rev) ==
    IF rev = 1
    THEN <<L("Circuit has nodes", "success")>>
    ELSE <<L("Route computed: waypoints", "success")>>

ExportLogs(rev, stats) ==
    IF rev = 1
    THEN <<L("Generating coordinates...", "info"), L("Generated coordinate points", "success"),
           L("Generating GPX file...", "info"), L("GPX file generated", "success"),
           L("Calculating statistics...", "info"), L("Statistics calculated", "success"),
           L("Route generation complete!", "success")>>
    ELSE <<L("Generating GPX file...", "info"), L("GPX file generated successfully", "success"),
           L("Total distance", "info"), L("Estimated drive time", "info"),
           L("Turn statistics", "info")>> \o
         (IF stats.uTurnCount > 0
          THEN <<L("Note: U-turns were unavoidable due to network topology", "warning")>>
          ELSE <<L("No U-turns in the route!", "success")>>) \o
         <<L("Route generation complete!", "success")>>

(* log(message, type) of processRoute, once per entry of `entries`:        *)
(* logs.push(entry); onLog(entry).  s = [logs, delivered]; delivered is    *)
(* the sequence of entries the callback has been called with.              *)
Log(s, entries) ==
    [logs |-> s.logs \o entries, delivered |-> s.delivered \o entries]

\* variant of OnLog: setLogs([...logs, log]) with the `logs` of the render that
\* created the callback, which is the empty list
OnLogStale(prev, entries) == IF Len(entries) = 0 THEN prev ELSE <<Last(entries)>>

(* The callback Home.handleGenerate passes as onLog, once per entry:       *)
(* setLogs((prev) => [...prev, log]).  Updater functions are applied in    *)
(* the order of the calls, so the retained list is updated here directly.  *)
OnLog(prev, entries) == prev \o entries

\* the entry the catch block of handleGenerate appends
ErrorEntry(message) == L(message, "error")

\* ------------------------------------------------------------------ inputs
W(id, nodes, oneway) == [id |-> id, nodes |-> nodes, oneway |-> oneway]

(* The filtered segments an input is drawn from (OSMWay: id, nodes,        *)
(* tags.oneway === 'yes'): two-way and one-way streets between the four    *)
(* registered vertices, the square, a one-way triangle, and two segments   *)
(* that reference the unregistered vertex 5.                               *)
WayCatalog ==
    { W(1, <<1, 2>>, FALSE), W(2, <<2, 3>>, FALSE), W(3, <<3, 4>>, FALSE),
      W(4, <<1, 2, 3, 4, 1>>, FALSE), W(5, <<1, 2>>, TRUE), W(6, <<2, 3>>, TRUE),
      W(7, <<3, 1>>, TRUE), W(8, <<1, 2, 3, 1>>, TRUE), W(9, <<1, 5>>, FALSE),
      W(10, <<5, 1, 2>>, FALSE), W(11, <<1, 3>>, FALSE) }

WayLists == UNION {[1..n -> WayCatalog] : n \in 0..MaxWays}

\* customStartPoint: none, or the coordinate of the E corner
StartPoints == {NoStart, <<0, 1>>}

\* the penalty configurations Home passes: the defaults, and U-turns made free
PenaltyConfigs == {DefaultPenalties, [DefaultPenalties EXCEPT !.uTurn = 0, !.rightTurn = 200]}

Inputs ==
    {[rev |-> r, ways |-> w, ignoreOneways |-> io, startPoint |-> sp, penalties |-> p] :
        r \in {1, 2}, w \in WayLists, io \in BOOLEAN, sp \in StartPoints, p \in PenaltyConfigs}

\* ------------------------------------------------------------------- state
VARIABLES
    input,           \* arguments of processRoute (after parseOSMFile / filterWays)
    pc,              \* position of handleGenerate / processRoute
    graph,           \* buildGraph's result
    subgraph,        \* findLargestSCC's subgraph
    componentCount,  \* findLargestSCC's componentCount
    oddNodes,        \* getOddDegreeNodes's result (revision 1)
    matching,        \* minimumWeightMatching's result (revision 1)
    multigraph,      \* createMultigraph's result (revision 1)
    startNode,       \* the start vertex
    remainingEdges,  \* working copy of the circuit builder
    stack,           \* work stack of the circuit builder
    circuit,         \* output of the circuit builder
    result,          \* the RouteResult processRoute returns
    error,           \* message of the Error processRoute throws
    logs,            \* processRoute's own logs array
    delivered,       \* entries the onLog callback was called with
    homeLogs,        \* Home's `logs` state
    homeResult,      \* Home's `result` state
    isProcessing,    \* Home's `isProcessing` state
    now,             \* the wall clock `new Date()` reads, in ticks
    lastOutcome,     \* what the previous call of processRoute ended with
    unit,            \* a single function call and its result (UnitSpec)
    route,           \* AnimatedLeafletMap's `route` prop: its number of coordinates
    mapRef,          \* the ref `map`: whether the Leaflet map exists
    animators,       \* the RouteAnimator objects created so far
    animatorRef,     \* the ref `animator`: index into animators, 0 for null
    truckMarker,     \* the ref `truckMarker`: the marker's position, or NoMarker
    animationState,  \* the state `animationState`: the state object it refers to
    rendered,        \* what the last render showed of animationState
    speed,           \* the state `speed` of AnimatedLeafletMap
    lastPress,       \* the playback button the user pressed last
    homeRev,         \* the revision of Home
    file,            \* Home's `file` state
    fileContent,     \* Home's `fileContent` state
    readers,         \* the FileReaders whose load has not completed
    ctxPenalties,    \* the `penalties` state of TurnPenaltiesProvider
    homeIgnoreOneways, \* Home's `ignoreOneways` state
    memo,            \* what the memoized handleGenerate closes over
    passed           \* the arguments of Home's last call of processRoute

\* the state of processRoute and of Home around it
processVars == <<input, pc, graph, subgraph, componentCount, oddNodes, matching, multigraph,
                 startNode, remainingEdges, stack, circuit, result, error, logs, delivered,
                 homeLogs, homeResult, isProcessing, now, lastOutcome, unit>>
\* the state of AnimatedLeafletMap and its animators
animVars == <<route, mapRef, animators, animatorRef, truckMarker, animationState, rendered, speed,
              lastPress>>
\* the state of Home's file selection and of the penalty context
homeVars == <<homeRev, file, fileContent, readers, ctxPenalties, homeIgnoreOneways, memo,
              passed>>
clientVars == <<animVars, homeVars>>

vars == <<processVars, clientVars>>

NoResult == [coordinates |-> <<>>, gpxContent |-> <<>>, stats |-> <<>>]
NoError == ""

\* the graph processRoute hands to the circuit builder and to the later stages
HandedGraph == IF input.rev = 1 THEN multigraph ELSE subgraph

\* no previous call of processRoute; no function call
NoOutcome == [done |-> FALSE, input |-> <<>>, result |-> NoResult, error |-> NoError]
NoCall == [fn |-> "none"]

\* null, and a value that is not null
None == <<>>
Some(x) == <<x>>

\* the client components before any interaction
FreshClient ==
    /\ route = None
    /\ mapRef = FALSE
    /\ animators = <<>>
    /\ animatorRef = 0
    /\ truckMarker = None
    /\ animationState = None
    /\ rendered = None
    /\ speed = 1
    /\ lastPress = "none"
    /\ homeRev = 1
    /\ file = None
    /\ fileContent = None
    /\ readers = <<>>
    /\ ctxPenalties = DefaultPenalties
    /\ homeIgnoreOneways = TRUE
    /\ memo = [penalties |-> DefaultPenalties]
    /\ passed = None

\* Home before the first click, and the locals of a processRoute not yet started
FreshLocals ==
    /\ FreshClient
    /\ subgraph = NoGraph
    /\ componentCount = 0
    /\ oddNodes = <<>>
    /\ matching = <<>>
    /\ multigraph = NoGraph
    /\ startNode = Undefined
    /\ remainingEdges = <<>>
    /\ stack = <<>>
    /\ circuit = <<>>
    /\ result = NoResult
    /\ error = NoError
    /\ logs = <<>>
    /\ delivered = <<>>
    /\ homeLogs = <<>>
    /\ homeResult = NoResult
    /\ isProcessing = FALSE
    /\ now = 0
    /\ lastOutcome = NoOutcome
    /\ unit = NoCall
Fresh ==
    /\ graph = NoGraph
    /\ FreshLocals

Init ==
    /\ input \in Inputs
    /\ (input.rev = 1 => input.penalties = DefaultPenalties)
    /\ pc = "idle"
    /\ Fresh

\* the log calls of one stage, and the callback runs they cause in Home
Emit(entries) ==
    LET s == Log([logs |-> logs, delivered |-> delivered], entries)
    IN  /\ logs' = s.logs
        /\ delivered' = s.delivered
        /\ homeLogs' = OnLog(homeLogs, SubSeq(s.delivered, Len(delivered) + 1, Len(s.delivered)))

\* throw new Error(message): the promise of processRoute rejects
Throw(message) ==
    /\ pc' = "failed"
    /\ error' = message

\* ----------------------------------------------------------------- actions
(* Home.handleGenerate up to the call of processRoute.                     *)
Generate ==
    /\ pc = "idle"
    /\ isProcessing' = TRUE
    /\ homeLogs' = <<>>
    /\ homeResult' = NoResult
    /\ pc' = "parse"
    /\ UNCHANGED <<clientVars, now, lastOutcome, unit, input, graph, subgraph, componentCount, oddNodes, matching, multigraph,
                   startNode, remainingEdges, stack, circuit, result, error, logs, delivered>>

(* processRoute: parse and filter; revision 2 throws on an empty filtered  *)
(* segment set.                                                            *)
ParseAndFilter ==
    /\ pc = "parse"
    /\ Emit(ParseLogs(input.rev))
    /\ IF input.rev = 2 /\ Len(input.ways) = 0
       THEN Throw("No valid road segments found in the OSM file")
       ELSE pc' = "build" /\ UNCHANGED error
    /\ UNCHANGED <<clientVars, now, lastOutcome, unit, input, graph, subgraph, componentCount, oddNodes, matching, multigraph,
                   startNode, remainingEdges, stack, circuit, result, homeResult, isProcessing>>

BuildGraph ==
    /\ pc = "build"
    /\ graph' = buildGraph(input.ways, input.ignoreOneways)
    /\ Emit(BuildLogs(input.rev))
    /\ pc' = "scc"
    /\ UNCHANGED <<clientVars, now, lastOutcome, unit, input, subgraph, componentCount, oddNodes, matching, multigraph,
                   startNode, remainingEdges, stack, circuit, result, error, homeResult,
                   isProcessing>>

(* Connectivity reduction; revision 2 throws when no vertex is left.       *)
FindSCC ==
    /\ pc = "scc"
    /\ LET r == findLargestSCC(input.rev, graph)
       IN  /\ subgraph' = r.subgraph
           /\ componentCount' = r.componentCount
           /\ IF input.rev = 1
              THEN pc' = "odd" /\ UNCHANGED error
              ELSE IF Len(r.subgraph.nodes) = 0
                   THEN Throw("No connected road network found")
                   ELSE pc' = "start" /\ UNCHANGED error
    /\ Emit(SCCLogs(input.rev))
    /\ UNCHANGED <<clientVars, now, lastOutcome, unit, input, graph, oddNodes, matching, multigraph, startNode, remainingEdges,
                   stack, circuit, result, homeResult, isProcessing>>

OddDegree ==
    /\ pc = "odd"
    /\ oddNodes' = getOddDegreeNodes(subgraph)
    /\ Emit(OddLogs)
    /\ pc' = "match"
    /\ UNCHANGED <<clientVars, now, lastOutcome, unit, input, graph, subgraph, componentCount, matching, multigraph, startNode,
                   remainingEdges, stack, circuit, result, error, homeResult, isProcessing>>

Matching ==
    /\ pc = "match"
    /\ matching' = minimumWeightMatching(subgraph, oddNodes)
    /\ Emit(MatchingLogs(oddNodes, matching'))
    /\ pc' = "multigraph"
    /\ UNCHANGED <<clientVars, now, lastOutcome, unit, input, graph, subgraph, componentCount, oddNodes, multigraph, startNode,
                   remainingEdges, stack, circuit, result, error, homeResult, isProcessing>>

Multigraph ==
    /\ pc = "multigraph"
    /\ multigraph' = createMultigraph(subgraph, matching)
    /\ Emit(MultigraphLogs)
    /\ pc' = "start"
    /\ UNCHANGED <<clientVars, now, lastOutcome, unit, input, graph, subgraph, componentCount, oddNodes, matching, startNode,
                   remainingEdges, stack, circuit, result, error, homeResult, isProcessing>>

(* Choice of the start vertex: revision 1 takes the first vertex of the    *)
(* Map or the nearest one to the start point, revision 2 the closest one   *)
(* to the start point or to the centroid.                                  *)
StartNode ==
    /\ pc = "start"
    /\ startNode' =
         IF input.rev = 1
         THEN IF input.startPoint = NoStart
              THEN (IF Len(multigraph.nodes) > 0 THEN multigraph.nodes[1] ELSE Undefined)
              ELSE findNearestNode(multigraph, input.startPoint)
         ELSE IF input.startPoint = NoStart
              THEN findCentroidNode(subgraph)
              ELSE findClosestNode(subgraph, input.startPoint[1], input.startPoint[2])
    /\ Emit(StartLogs(input.rev, input.startPoint, InSeq(startNode', HandedGraph.nodes)))
    /\ pc' = "begin"
    /\ UNCHANGED <<clientVars, now, lastOutcome, unit, input, graph, subgraph, componentCount, oddNodes, matching, multigraph,
                   remainingEdges, stack, circuit, result, error, homeResult, isProcessing>>

(* Entry of the circuit builder: the working copy and the initial stack.   *)
BeginCircuit ==
    /\ pc = "begin"
    /\ Emit(BeginLogs(input.rev))
    /\ remainingEdges' = CopyAdjacency(HandedGraph)
    /\ stack' = <<[node |-> startNode, incomingBearing |-> NoBearing]>>
    /\ circuit' = <<>>
    /\ pc' = "loop"
    /\ UNCHANGED <<clientVars, now, lastOutcome, unit, input, graph, subgraph, componentCount, oddNodes, matching, multigraph,
                   startNode, result, error, homeResult, isProcessing>>

(* One iteration of the builder's while loop.  In revision 1 the loop      *)
(* evaluates current.toString(), a TypeError when the start vertex is      *)
(* undefined.                                                              *)
CircuitStep ==
    /\ pc = "loop"
    /\ Len(stack) > 0
    /\ IF input.rev = 1 /\ Last(stack).node = Undefined
       THEN /\ Throw("Cannot read properties of undefined (reading 'toString')")
            /\ UNCHANGED <<subgraph, multigraph, remainingEdges, stack, circuit>>
       ELSE LET b == [graph |-> HandedGraph, remainingEdges |-> remainingEdges,
                      stack |-> stack, circuit |-> circuit]
                r == IF input.rev = 1
                     THEN findEulerianCircuit(b)
                     ELSE hierholzerWithTurnPreference(b, input.penalties)
            IN  /\ remainingEdges' = r.remainingEdges
                /\ stack' = r.stack
                /\ circuit' = r.circuit
                /\ IF input.rev = 1
                   THEN multigraph' = r.graph /\ UNCHANGED subgraph
                   ELSE subgraph' = r.graph /\ UNCHANGED multigraph
                /\ UNCHANGED <<pc, error>>
    /\ UNCHANGED <<clientVars, now, lastOutcome, unit, input, graph, componentCount, oddNodes, matching, startNode, result,
                   logs, delivered, homeLogs, homeResult, isProcessing>>

\* the loop has ended: circuit.reverse() and the builder returns
EndCircuit ==
    /\ pc = "loop"
    /\ Len(stack) = 0
    /\ circuit' = Reverse(circuit)
    /\ Emit(EndLogs(input.rev))
    /\ pc' = "export"
    /\ UNCHANGED <<clientVars, now, lastOutcome, unit, input, graph, subgraph, componentCount, oddNodes, matching, multigraph,
                   startNode, remainingEdges, stack, result, error, homeResult, isProcessing>>

\* variant of Export: the coordinates are appended to those of the previous call
ExportAppending ==
    /\ pc = "export"
    /\ LET stats == calculateRouteStats(circuit, HandedGraph, Len(input.ways), 0, componentCount)
       IN  /\ result' = [coordinates |-> lastOutcome.result.coordinates \o
                                           getCircuitCoordinates(circuit, HandedGraph),
                         gpxContent |-> generateGPX(DefaultFilename,
                                                    getCircuitCoordinates(circuit, HandedGraph),
                                                    now),
                         stats |-> stats]
           /\ Emit(ExportLogs(input.rev, stats))
    /\ pc' = "returned"
    /\ UNCHANGED <<clientVars, now, lastOutcome, unit, input, graph, subgraph, componentCount, oddNodes,
                   matching, multigraph, startNode, remainingEdges, stack, circuit, error,
                   homeResult, isProcessing>>

(* Track file, statistics and the returned RouteResult.  The filename is   *)
(* the one Home starts with.                                               *)
Export ==
    /\ pc = "export"
    /\ LET stats == calculateRouteStats(circuit, HandedGraph, Len(input.ways), 0, componentCount)
       IN  /\ result' = [coordinates |-> getCircuitCoordinates(circuit, HandedGraph),
                         gpxContent |-> generateGPX(DefaultFilename,
                                                    getCircuitCoordinates(circuit, HandedGraph),
                                                    now),
                         stats |-> stats]
           /\ Emit(ExportLogs(input.rev, stats))
    /\ pc' = "returned"
    /\ UNCHANGED <<clientVars, now, lastOutcome, unit, input, graph, subgraph, componentCount, oddNodes, matching, multigraph,
                   startNode, remainingEdges, stack, circuit, error, homeResult, isProcessing>>

\* handleGenerate after the await: setResult(result); finally setIsProcessing(false)
HandleSuccess ==
    /\ pc = "returned"
    /\ homeResult' = result
    /\ isProcessing' = FALSE
    /\ pc' = "done"
    /\ UNCHANGED <<clientVars, now, lastOutcome, unit, input, graph, subgraph, componentCount, oddNodes, matching, multigraph,
                   startNode, remainingEdges, stack, circuit, result, error, logs, delivered,
                   homeLogs>>

\* the catch block of handleGenerate: the error entry is appended to the logs
HandleError ==
    /\ pc = "failed"
    /\ homeLogs' = homeLogs \o <<ErrorEntry(error)>>
    /\ isProcessing' = FALSE
    /\ pc' = "handled"
    /\ UNCHANGED <<clientVars, now, lastOutcome, unit, input, graph, subgraph, componentCount, oddNodes, matching, multigraph,
                   startNode, remainingEdges, stack, circuit, result, error, logs, delivered,
                   homeResult>>

Next ==
    \/ Generate
    \/ ParseAndFilter
    \/ BuildGraph
    \/ FindSCC
    \/ OddDegree
    \/ Matching
    \/ Multigraph
    \/ StartNode
    \/ BeginCircuit
    \/ CircuitStep
    \/ EndCircuit
    \/ Export
    \/ HandleSuccess
    \/ HandleError

Spec == Init /\ [][Next]_vars

\* ------------------------------------------------------- a second click
(* Penalties with a costly left turn, with a free and with a costly        *)
(* U-turn (all inside the ranges of TurnPenaltyConfig).                    *)
LeftAverse(uTurn) == [straight |-> 0, rightTurn |-> 10, leftTurn |-> 400, uTurn |-> uTurn]
RetryPenalties == {DefaultPenalties, LeftAverse(0), LeftAverse(500)}

\* segments of the inputs that are run twice: a street, the square, a one-way street
RetryCatalog == {w \in WayCatalog : w.id \in {1, 4, 5}}
RetryInputs ==
    {[rev |-> r, ways |-> w, ignoreOneways |-> io, startPoint |-> sp, penalties |-> p] :
        r \in {1, 2}, w \in UNION {[1..n -> RetryCatalog] : n \in 0..MaxWays},
        io \in BOOLEAN, sp \in StartPoints, p \in RetryPenalties}

RetryInit ==
    /\ input \in RetryInputs
    /\ (input.rev = 1 => input.penalties = DefaultPenalties)
    /\ pc = "idle"
    /\ Fresh

(* handleGenerate is called again after a run has ended, with the same     *)
(* file, flag and start point and, in revision 2, with the penalties the   *)
(* sliders show by then; time has passed.  lastOutcome keeps what the      *)
(* first call ended with.                                                  *)
Retry ==
    /\ pc \in {"done", "handled"}
    /\ ~lastOutcome.done
    /\ lastOutcome' = [done |-> TRUE, input |-> input, result |-> result, error |-> error]
    /\ now' = now + 1
    /\ \E p \in (IF input.rev = 1 THEN {input.penalties} ELSE RetryPenalties) :
          input' = [input EXCEPT !.penalties = p]
    /\ isProcessing' = TRUE
    /\ homeLogs' = <<>>
    /\ homeResult' = NoResult
    /\ pc' = "parse"
    /\ graph' = NoGraph
    /\ subgraph' = NoGraph
    /\ componentCount' = 0
    /\ oddNodes' = <<>>
    /\ matching' = <<>>
    /\ multigraph' = NoGraph
    /\ startNode' = Undefined
    /\ remainingEdges' = <<>>
    /\ stack' = <<>>
    /\ circuit' = <<>>
    /\ result' = NoResult
    /\ error' = NoError
    /\ logs' = <<>>
    /\ delivered' = <<>>
    /\ UNCHANGED <<clientVars, unit>>

RetryNext ==
    \/ Next
    \/ Retry

RetrySpec == RetryInit /\ [][RetryNext]_vars

\* ------------------------------------------------- single function calls
(* dijkstra, createMultigraph and generateGPX applied on their own to a    *)
(* graph buildGraph produced, which `graph` holds from the start:          *)
(* unit = [fn, arguments, ret].                                            *)
UnitInit ==
    /\ input \in Inputs
    /\ input.rev = 1
    /\ input.startPoint = NoStart
    /\ input.penalties = DefaultPenalties
    /\ pc = "unit"
    /\ graph = buildGraph(input.ways, input.ignoreOneways)
    /\ FreshLocals

Called(call) ==
    /\ pc = "unit"
    /\ unit' = call
    /\ pc' = "called"
    /\ UNCHANGED <<clientVars, input, graph, subgraph, componentCount, oddNodes, matching, multigraph,
                   startNode, remainingEdges, stack, circuit, result, error, logs, delivered,
                   homeLogs, homeResult, isProcessing, now, lastOutcome>>

CallDijkstra ==
    \E start, end \in SeqToSet(graph.nodes) :
        Called([fn |-> "dijkstra", start |-> start, end |-> end,
                ret |-> dijkstra(graph, start, end)])

\* the matching holds one pair of odd-degree vertices
CallCreateMultigraph ==
    \E u, v \in SeqToSet(getOddDegreeNodes(graph)) :
        /\ u # v
        /\ Called([fn |-> "createMultigraph", matching |-> <<<<u, v>>>>,
                   ret |-> createMultigraph(graph, <<<<u, v>>>>)])

\* the circuit walks the first k vertices of the graph and returns to the first
CallGenerateGPX ==
    \E k \in 0..Len(graph.nodes), filename \in Filenames :
        LET walk == SubSeq(graph.nodes, 1, k) \o SubSeq(graph.nodes, 1, IF k > 1 THEN 1 ELSE 0)
        IN  Called([fn |-> "generateGPX", circuit |-> walk, filename |-> filename,
                    points |-> getCircuitCoordinates(walk, graph),
                    ret |-> generateGPX(filename, getCircuitCoordinates(walk, graph), now)])

UnitNext ==
    \/ CallDijkstra
    \/ CallCreateMultigraph
    \/ CallGenerateGPX

UnitSpec == UnitInit /\ [][UnitNext]_vars

\* ------------------------------------------------------- bearings and turns
(* calculateTurnScore applied on its own to every pair of whole-degree     *)
(* bearings, under the penalties of the sliders.                           *)
Bearings == 0..359
TurnPenalties == PenaltyConfigs \cup RetryPenalties

TurnInit ==
    /\ input = [rev |-> 2, ways |-> <<>>, ignoreOneways |-> FALSE, startPoint |-> NoStart,
                penalties |-> DefaultPenalties]
    /\ pc = "unit"
    /\ Fresh

\* turnAngle is the local of calculateTurnScore after its two loops
CallCalculateTurnScore ==
    /\ pc = "unit"
    /\ \E incoming, outgoing \in Bearings, penalties \in TurnPenalties :
          Called([fn |-> "calculateTurnScore", incoming |-> incoming, outgoing |-> outgoing,
                  penalties |-> penalties,
                  turnAngle |-> NormalizeAngle(outgoing - incoming),
                  ret |-> calculateTurnScore(incoming, outgoing, penalties)])

(* A street of Len(bearings) + 1 vertices, numbered along the street, with *)
(* one arc from each vertex to the next: the Graph buildGraph makes of a   *)
(* one-way segment whose consecutive pairs have the given bearings.        *)
MaxHops == 4
RouteBearings == {0, 20, 21, 90, 180, 270}
Streets == UNION {[1..n -> RouteBearings] : n \in 0..MaxHops}
StreetGraph(bearings) ==
    [nodes |-> [i \in 1..(Len(bearings) + 1) |-> i],
     adjKeys |-> [i \in 1..Len(bearings) |-> i],
     adj |-> [i \in 1..Len(bearings) |->
                <<[to |-> i + 1, key |-> i - 1, from |-> i, length |-> MetresPerUnit,
                   bearing |-> bearings[i], wayId |-> 1]>>],
     edgeCount |-> Len(bearings)]
\* the circuit that drives along the street
StreetRoute(bearings) == [i \in 1..(Len(bearings) + 1) |-> i]

CallCalculateRouteStats ==
    /\ pc = "unit"
    /\ \E bearings \in Streets :
          Called([fn |-> "calculateRouteStats", bearings |-> bearings,
                  ret |-> calculateRouteStats(StreetRoute(bearings), StreetGraph(bearings),
                                              1, 0, 1)])

TurnNext ==
    \/ CallCalculateTurnScore
    \/ CallCalculateRouteStats

TurnSpec == TurnInit /\ [][TurnNext]_vars

\* ----------------------------------------------------------- RouteAnimator
(* currentWaypointIndex is a real number; the model counts it in units of  *)
(* 1/Ticks of a waypoint, and time in units of 1/Ticks of a second.        *)
Ticks == 2
MaxCoords == 3
MaxAnimators == 3
\* values of the speed slider (inside the clamp of setSpeed)
Speeds == {1, 2}
\* time between two animation frames, in 1/Ticks of a second
FrameIntervals == {1, 2}

(* constructor(coordinates, speed): n = coordinates.length, and            *)
(* coordinates[i].edgeKey = i.  `object` tells the animationState objects  *)
(* of one animator apart, `pending` is a requested animation frame that    *)
(* has neither fired nor been cancelled, `reported` lists the calls of     *)
(* onEdgeComplete since the state object was made.  truck is the position  *)
(* of the truck along the route (truckLat, truckLon), progress in percent. *)
NewAnimator(n, initialSpeed) ==
    [n |-> n, isPlaying |-> FALSE, progress |-> 0, currentWaypointIndex |-> 0,
     completedEdges |-> {}, truck |-> 0, speed |-> initialSpeed, pending |-> FALSE,
     object |-> 1, reported |-> <<>>]

\* pause()
pause(a) == [a EXCEPT !.isPlaying = FALSE, !.pending = FALSE]

(* animate(): step = speed * deltaTime.  Returns the animator and whether  *)
(* onProgressUpdate was called.                                            *)
animate(a, step) ==
    IF ~a.isPlaying \/ a.n = 0
    THEN [a |-> [a EXCEPT !.pending = FALSE], update |-> FALSE]
    ELSE LET newIndex == a.currentWaypointIndex + step
             last == Ticks * (a.n - 1)
         IN  IF newIndex >= last
             THEN [a |-> pause([a EXCEPT !.currentWaypointIndex = last,
                                         !.progress = 100,
                                         !.truck = last]),
                   update |-> TRUE]
             ELSE LET prevIndex == IF newIndex >= Ticks
                                   THEN (newIndex - Ticks) \div Ticks ELSE -1
                      report == /\ prevIndex >= 0
                                /\ prevIndex < a.n - 1
                                /\ prevIndex \notin a.completedEdges
                  IN  [a |-> [a EXCEPT !.truck = newIndex,
                                       !.currentWaypointIndex = newIndex,
                                       !.progress = (100 * newIndex) \div last,
                                       !.completedEdges =
                                           IF report THEN @ \cup {prevIndex} ELSE @,
                                       !.reported =
                                           IF report THEN Append(@, prevIndex) ELSE @,
                                       !.pending = TRUE],
                       update |-> TRUE]

\* play(): lastTimestamp = performance.now(); animate() runs with deltaTime 0
play(a) ==
    IF a.isPlaying
    THEN [a |-> a, update |-> FALSE]
    ELSE animate([a EXCEPT !.isPlaying = TRUE], 0)

(* reset(): a new animationState object; onProgressUpdate is called with   *)
(* it.  Nobody holds a reference to an object older than the one replaced, *)
(* so two names tell the new object from the old one.                      *)
reset(a) ==
    [pause(a) EXCEPT !.progress = 0, !.currentWaypointIndex = 0, !.completedEdges = {},
                     !.truck = 0, !.object = 3 - @, !.reported = <<>>]

\* setSpeed(speed): Math.max(0.1, Math.min(5, speed))
setSpeed(a, newSpeed) == [a EXCEPT !.speed = IF newSpeed > 5 THEN 5 ELSE newSpeed]

\* ------------------------------------------------------ AnimatedLeafletMap
(* What a render shows of the animationState state: the content the state  *)
(* object has at the time of the render.                                   *)
Render(st, anims) ==
    IF st = None
    THEN None
    ELSE LET a == anims[st[1][1]]
         IN  Some([isPlaying |-> a.isPlaying, progress |-> a.progress,
                   completed |-> Cardinality(a.completedEdges)])

(* The callback given to setOnProgressUpdate, called by animator i:        *)
(* setAnimationState(state), which renders when the state object is not    *)
(* the one already held, and the truck marker made or moved.               *)
OnProgressUpdate(i, anims) ==
    /\ animationState' = Some(<<i, anims[i].object>>)
    /\ rendered' = IF animationState' = animationState
                   THEN rendered ELSE Render(animationState', anims)
    /\ truckMarker' = Some(anims[i].truck)

(* The effect on [route, speed]: the marker is removed and, unless the     *)
(* route has no coordinates, a new animator replaces animator.current.     *)
(* The animator it replaces is not paused.                                 *)
RouteEffect(r, anims, newSpeed) ==
    IF r = None \/ ~mapRef
    THEN UNCHANGED <<truckMarker, animatorRef>> /\ animators' = anims
    ELSE /\ truckMarker' = None
         /\ IF r[1] = 0
            THEN animators' = anims /\ UNCHANGED animatorRef
            ELSE /\ animators' = Append(anims, NewAnimator(r[1], newSpeed))
                 /\ animatorRef' = Len(anims) + 1

(* The component is mounted with the route Home holds at that time: the    *)
(* map is made only if the container is rendered, that is if route is not  *)
(* null, and the effect on [route, speed] has run once.                    *)
AnimInit ==
    /\ input = [rev |-> 2, ways |-> <<>>, ignoreOneways |-> FALSE, startPoint |-> NoStart,
                penalties |-> DefaultPenalties]
    /\ pc = "client"
    /\ graph = NoGraph
    /\ subgraph = NoGraph
    /\ componentCount = 0
    /\ oddNodes = <<>>
    /\ matching = <<>>
    /\ multigraph = NoGraph
    /\ startNode = Undefined
    /\ remainingEdges = <<>>
    /\ stack = <<>>
    /\ circuit = <<>>
    /\ result = NoResult
    /\ error = NoError
    /\ logs = <<>>
    /\ delivered = <<>>
    /\ homeLogs = <<>>
    /\ homeResult = NoResult
    /\ isProcessing = FALSE
    /\ now = 0
    /\ lastOutcome = NoOutcome
    /\ unit = NoCall
    /\ route \in {None} \cup {Some(n) : n \in 0..MaxCoords}
    /\ mapRef = (route # None)
    /\ animators = IF route # None /\ route[1] > 0
                   THEN <<NewAnimator(route[1], 1)>> ELSE <<>>
    /\ animatorRef = Len(animators)
    /\ truckMarker = None
    /\ animationState = None
    /\ rendered = None
    /\ speed = 1
    /\ lastPress = "none"
    /\ homeRev = 1
    /\ file = None
    /\ fileContent = None
    /\ readers = <<>>
    /\ ctxPenalties = DefaultPenalties
    /\ homeIgnoreOneways = TRUE
    /\ memo = [penalties |-> DefaultPenalties]
    /\ passed = None

\* animationState?.isPlaying as the last render showed it
ShownPlaying == IF rendered = None THEN FALSE ELSE rendered[1].isPlaying

\* the controls are rendered only with a route
ControlsShown == pc = "client" /\ route # None

\* Home passes a new result as the route prop
RouteChange ==
    /\ pc = "client"
    /\ Len(animators) < MaxAnimators
    /\ \E n \in 0..MaxCoords :
          /\ route' = Some(n)
          /\ RouteEffect(route', animators, speed)
    /\ rendered' = Render(animationState, animators)
    /\ UNCHANGED <<mapRef, animationState, speed, lastPress, homeVars, processVars>>

\* handlePlay; the button is disabled while the rendered state is playing
handlePlay ==
    /\ ControlsShown
    /\ ~ShownPlaying
    /\ lastPress' = "play"
    /\ IF animatorRef = 0
       THEN UNCHANGED <<animators, animationState, rendered, truckMarker>>
       ELSE LET r == play(animators[animatorRef])
            IN  /\ animators' = [animators EXCEPT ![animatorRef] = r.a]
                /\ IF r.update
                   THEN OnProgressUpdate(animatorRef, animators')
                   ELSE UNCHANGED <<animationState, rendered, truckMarker>>
    /\ UNCHANGED <<route, mapRef, animatorRef, speed, homeVars, processVars>>

\* handlePause; the button is disabled unless the rendered state is playing
handlePause ==
    /\ ControlsShown
    /\ ShownPlaying
    /\ lastPress' = "pause"
    /\ animators' = IF animatorRef = 0 THEN animators
                    ELSE [animators EXCEPT ![animatorRef] = pause(@)]
    /\ UNCHANGED <<route, mapRef, animatorRef, truckMarker, animationState, rendered, speed,
                   homeVars, processVars>>

(* handleReset: reset() calls onProgressUpdate with the new state object,  *)
(* then setAnimationState(null) and the marker is removed.                 *)
handleReset ==
    /\ ControlsShown
    /\ lastPress' = "reset"
    /\ animators' = IF animatorRef = 0 THEN animators
                    ELSE [animators EXCEPT ![animatorRef] = reset(@)]
    /\ animationState' = None
    /\ rendered' = None
    /\ truckMarker' = None
    /\ UNCHANGED <<route, mapRef, animatorRef, speed, homeVars, processVars>>

(* handleSpeedChange: setSpeed(newSpeed) renders and runs the effect on    *)
(* [route, speed] again; animator.current?.setSpeed(newSpeed) is applied   *)
(* to the animator held before the effect runs.                            *)
handleSpeedChange ==
    /\ ControlsShown
    /\ Len(animators) < MaxAnimators
    /\ \E newSpeed \in Speeds \ {speed} :
          /\ speed' = newSpeed
          /\ RouteEffect(route,
                         IF animatorRef = 0 THEN animators
                         ELSE [animators EXCEPT ![animatorRef] = setSpeed(@, newSpeed)],
                         newSpeed)
    /\ rendered' = Render(animationState, animators)
    /\ UNCHANGED <<route, mapRef, animationState, lastPress, homeVars, processVars>>

\* the animation frame an animator requested fires after some frame interval
Frame ==
    /\ pc = "client"
    /\ \E i \in 1..Len(animators), dt \in FrameIntervals :
          /\ animators[i].pending
          /\ LET r == animate(animators[i], animators[i].speed * dt)
             IN  /\ animators' = [animators EXCEPT ![i] = r.a]
                 /\ IF r.update
                    THEN OnProgressUpdate(i, animators')
                    ELSE UNCHANGED <<animationState, rendered, truckMarker>>
    /\ UNCHANGED <<route, mapRef, animatorRef, speed, lastPress, homeVars, processVars>>

AnimNext ==
    \/ RouteChange
    \/ handlePlay
    \/ handlePause
    \/ handleReset
    \/ handleSpeedChange
    \/ Frame

AnimSpec == AnimInit /\ [][AnimNext]_vars

\* ============================================================== properties
\* the builder has returned its circuit
BuilderReturned == pc \in {"export", "returned", "done"}

\* number of arcs of g from u to v, and number of arcs of g
ArcsBetween(g, u, v) ==
    Cardinality({i \in 1..Len(EdgesOf(g, u)) : EdgesOf(g, u)[i].to = v})
ArcCount(g) ==
    SumSeq([k \in 1..Len(g.adjKeys) |-> Len(g.adj[g.adjKeys[k]])], 1)
\* number of hops of the circuit c from u to v
HopsBetween(c, u, v) ==
    Cardinality({i \in 1..(Len(c) - 1) : c[i] = u /\ c[i + 1] = v})

(* C1: replaying the returned circuit hop by hop, each hop matched to a    *)
(* distinct unused arc with the same endpoints, uses every arc of the      *)
(* graph handed to the builder exactly once: between every two vertices    *)
(* there are as many hops as arcs.                                         *)
C1_ReplayConsumesEveryArc ==
    BuilderReturned =>
        \A u, v \in SeqToSet(circuit) \cup SeqToSet(HandedGraph.nodes) :
            HopsBetween(circuit, u, v) = ArcsBetween(HandedGraph, u, v)

(* C2: the returned circuit has arcCount(graph) + 1 entries and its first  *)
(* and last entries both equal the start vertex.                           *)
C2_ClosedCircuitLength ==
    BuilderReturned =>
        /\ Len(circuit) = ArcCount(HandedGraph) + 1
        /\ circuit[1] = startNode
        /\ Last(circuit) = startNode

(* C3: after getOddDegreeNodes, minimumWeightMatching and createMultigraph *)
(* have run on the reduced graph, every vertex of the multigraph has an    *)
(* even number of outgoing arcs.                                           *)
C3_AllDegreesEven ==
    multigraph # NoGraph =>
        \A v \in SeqToSet(multigraph.nodes) : Degree(multigraph, v) % 2 = 0

(* C4: whenever the circuit builder runs, the degree-balancing stage has   *)
(* completed and the graph the builder works on is the multigraph that     *)
(* stage produced.                                                         *)
C4_BuilderGetsBalancedGraph ==
    pc = "loop" => multigraph # NoGraph /\ HandedGraph = multigraph

(* C5: no step of the circuit builder changes the graph it was handed:     *)
(* adjacency lists, vertex set and edgeCount stay what they were.          *)
C5_BuilderLeavesGraphUnchanged ==
    [][(pc \in {"begin", "loop"}) => (HandedGraph' = HandedGraph)]_vars

\* the builder has consumed every arc of a graph with arcs, from its working copy
C5_Witness ==
    /\ pc = "export"
    /\ HandedGraph.edgeCount > 2
    /\ \A n \in DOMAIN remainingEdges : Len(remainingEdges[n].list) = 0

\* findLargestSCC has just returned (the state the later stages start from)
SCCReturned ==
    /\ subgraph # NoGraph
    /\ multigraph = NoGraph
    /\ pc \in {"odd", "start", "failed"}

\* vertices reachable from the set S along arcs of g
Succ(g, n) == {EdgesOf(g, n)[i].to : i \in 1..Len(EdgesOf(g, n))}
RECURSIVE ReachFrom(_, _)
ReachFrom(g, S) ==
    LET T == S \cup UNION {Succ(g, n) : n \in S}
    IN  IF T = S THEN S ELSE ReachFrom(g, T)
\* the strongly connected components of g: maximal sets of mutually reachable vertices
SCCs(g) ==
    {{v \in SeqToSet(g.nodes) : v \in ReachFrom(g, {u}) /\ u \in ReachFrom(g, {v})} :
        u \in SeqToSet(g.nodes)}
AllArcs(g) == UNION {SeqToSet(g.adj[n]) : n \in SeqToSet(g.adjKeys)}

(* C6: findLargestSCC returns the subgraph induced by a strongly connected *)
(* component of maximum vertex count: its arcs are exactly the input arcs  *)
(* with both endpoints in the component, edgeCount counts them, and        *)
(* componentCount is the number of strongly connected components.          *)
C6_LargestSCC ==
    SCCReturned =>
        LET S == SeqToSet(subgraph.nodes)
        IN  /\ Len(subgraph.nodes) = Cardinality(S)
            /\ IF graph.nodes = <<>>
               THEN S = {}
               ELSE /\ S \in SCCs(graph)
                    /\ \A C \in SCCs(graph) : Cardinality(C) <= Cardinality(S)
            /\ AllArcs(subgraph) = {a \in AllArcs(graph) : a.from \in S /\ a.to \in S}
            /\ \A n \in SeqToSet(subgraph.adjKeys) :
                  /\ n \in S
                  /\ \A i \in 1..Len(subgraph.adj[n]) : subgraph.adj[n][i].from = n
            /\ subgraph.edgeCount = Cardinality(AllArcs(subgraph))
            /\ subgraph.edgeCount = ArcCount(subgraph)
            /\ componentCount = Cardinality(SCCs(graph))

\* a reduction that drops a smaller component and an arc leaving the largest one
C6_Witness ==
    /\ SCCReturned
    /\ componentCount >= 2
    /\ Len(subgraph.nodes) >= 2
    /\ subgraph.edgeCount >= 2
    /\ subgraph.edgeCount < graph.edgeCount

\* several components share the maximum vertex count
MaxSize(components) ==
    CHOOSE m \in 0..Cardinality(NodeIds) :
        /\ \A i \in 1..Len(components) : Len(components[i]) <= m
        /\ \E i \in 1..Len(components) : Len(components[i]) = m
Tied(components) ==
    /\ Len(components) > 0
    /\ Cardinality({i \in 1..Len(components) :
                       Len(components[i]) = MaxSize(components)}) > 1
FirstMax(components) ==
    components[CHOOSE i \in 1..Len(components) :
                  /\ Len(components[i]) = MaxSize(components)
                  /\ \A j \in 1..(i - 1) : Len(components[j]) < MaxSize(components)]
LastMax(components) ==
    components[CHOOSE i \in 1..Len(components) :
                  /\ Len(components[i]) = MaxSize(components)
                  /\ \A j \in (i + 1)..Len(components) : Len(components[j]) < MaxSize(components)]

(* C7 as stated: when several components share the maximum vertex count,   *)
(* findLargestSCC selects the one discovered first in the second DFS pass. *)
C7_FirstDiscoveredWins ==
    (SCCReturned /\ Tied(Components(graph))) =>
        SeqToSet(subgraph.nodes) = SeqToSet(FirstMax(Components(graph)))

(* C7 amended: on a tie the revision that scans with a strict `>` selects  *)
(* the component discovered first, and the revision that reduces with      *)
(* `a.size > b.size ? a : b` selects the one discovered last.              *)
C7_TieBreakByRevision ==
    (SCCReturned /\ Tied(Components(graph))) =>
        SeqToSet(subgraph.nodes) =
            IF input.rev = 1
            THEN SeqToSet(FirstMax(Components(graph)))
            ELSE SeqToSet(LastMax(Components(graph)))

\* a tie between two components of two vertices each has been resolved
C7_Witness ==
    /\ SCCReturned
    /\ Tied(Components(graph))
    /\ Len(subgraph.nodes) = 2

(* C8: with an empty filtered segment set, and with a reduced network of   *)
(* zero vertices, processRoute returns no route result, and the circuit    *)
(* builder, the track file and the statistics are never reached.           *)
C8_FatalOnEmptyNetwork ==
    (Len(input.ways) = 0 \/ (subgraph # NoGraph /\ Len(subgraph.nodes) = 0)) =>
        /\ pc \notin {"loop", "export", "returned", "done"}
        /\ result = NoResult

\* minimumWeightMatching has run and left an odd-degree vertex without a partner
PairingSkipped ==
    /\ input.rev = 1
    /\ pc \in {"multigraph", "start", "begin", "loop", "export", "returned", "done",
               "failed", "handled"}
    /\ \E i \in 1..Len(oddNodes) :
          \A m \in 1..Len(matching) :
              oddNodes[i] # matching[m][1] /\ oddNodes[i] # matching[m][2]
WarningDelivered == \E i \in 1..Len(delivered) : delivered[i].type = "warning"

C10_LogsRetainedOnFailure ==
    /\ (pc = "failed" => delivered = logs /\ homeLogs = logs)
    /\ (pc = "handled" => homeLogs = logs \o <<ErrorEntry(error)>>)

\* a failed run has been handled after several entries were logged
C10_Witness ==
    /\ pc = "handled"
    /\ Len(logs) > 4
    /\ error # NoError

\* buildGraph has just returned
BuildReturned == pc = "scc"

\* the consecutive pairs <<segment index, position>> whose two vertices are registered
RegisteredPairs(ways) ==
    UNION {{<<w, i>> : i \in {k \in 1..(Len(ways[w].nodes) - 1) :
                                 /\ ways[w].nodes[k] \in RegisteredNodes
                                 /\ ways[w].nodes[k + 1] \in RegisteredNodes}} :
           w \in 1..Len(ways)}
\* the consecutive pairs with a vertex id that is missing from the vertex table
SkippedPairs(ways) ==
    UNION {{<<w, i>> : i \in {k \in 1..(Len(ways[w].nodes) - 1) :
                                 \/ ways[w].nodes[k] \notin RegisteredNodes
                                 \/ ways[w].nodes[k + 1] \notin RegisteredNodes}} :
           w \in 1..Len(ways)}
\* an arc without its key
Shape(a) ==
    [to |-> a.to, from |-> a.from, length |-> a.length, bearing |-> a.bearing,
     wayId |-> a.wayId]
\* the arc u->v the pair p stands for, and its reverse
ForwardArc(ways, p) ==
    LET u == ways[p[1]].nodes[p[2]]
        v == ways[p[1]].nodes[p[2] + 1]
    IN  [to |-> v, from |-> u,
         length |-> haversineDistance(NodeLat(u), NodeLon(u), NodeLat(v), NodeLon(v)),
         bearing |-> calculateBearing(NodeLat(u), NodeLon(u), NodeLat(v), NodeLon(v)),
         wayId |-> ways[p[1]].id]
ReverseArc(ways, p) ==
    LET f == ForwardArc(ways, p)
    IN  [to |-> f.from, from |-> f.to, length |-> f.length,
         bearing |-> (f.bearing + 180) % 360, wayId |-> f.wayId]
\* number of arcs of g, stored in the list of their origin, that have the shape s
ShapeCount(g, s) ==
    IF InSeq(s.from, g.adjKeys)
    THEN Cardinality({i \in 1..Len(g.adj[s.from]) : Shape(g.adj[s.from][i]) = s})
    ELSE 0

(* C11: for every consecutive pair (u, v) of a segment with both vertices  *)
(* registered, the graph holds the arc u->v, and it holds the reverse arc  *)
(* v->u, with bearing (forward + 180) mod 360 and the same length and      *)
(* segment id, exactly when the segment is not one-way or ignoreOneways is *)
(* true: every arc shape occurs as often as the pairs call for it.         *)
C11_ArcsPerPair ==
    BuildReturned =>
        LET P == RegisteredPairs(input.ways)
            mirrored == {p \in P : input.ignoreOneways \/ ~input.ways[p[1]].oneway}
            forward == [p \in P |-> ForwardArc(input.ways, p)]
            reverse == [p \in P |-> ReverseArc(input.ways, p)]
            shapes == {Shape(a) : a \in AllArcs(graph)}
                         \cup {forward[p] : p \in P} \cup {reverse[p] : p \in P}
        IN  /\ \A s \in shapes :
                  ShapeCount(graph, s) =
                      Cardinality({p \in P : forward[p] = s})
                      + Cardinality({p \in mirrored : reverse[p] = s})
            /\ ArcCount(graph) = Cardinality(P) + Cardinality(mirrored)

\* a graph built from a respected one-way segment and a two-way segment
C11_Witness ==
    /\ BuildReturned
    /\ ~input.ignoreOneways
    /\ \E p, q \in RegisteredPairs(input.ways) :
          input.ways[p[1]].oneway /\ ~input.ways[q[1]].oneway
    /\ graph.edgeCount >= 3

\* the arcs of g lie inside its vertex set and edgeCount counts them
WellFormedGraph(g) ==
    /\ \A n \in SeqToSet(g.adjKeys) :
          /\ InSeq(n, g.nodes)
          /\ \A i \in 1..Len(g.adj[n]) :
                g.adj[n][i].from = n /\ InSeq(g.adj[n][i].to, g.nodes)
    /\ g.edgeCount = ArcCount(g)

(* C12: in every graph buildGraph, findLargestSCC and createMultigraph     *)
(* produce, the origin and the destination of every arc are vertices of    *)
(* that graph, and edgeCount is the number of arcs in its adjacency lists. *)
C12_ArcsInsideVertexSet ==
    /\ (graph # NoGraph => WellFormedGraph(graph))
    /\ (subgraph # NoGraph => WellFormedGraph(subgraph))
    /\ (multigraph # NoGraph => WellFormedGraph(multigraph))

\* all three graphs exist, and the reduction dropped arcs that left the component
C12_Witness ==
    /\ multigraph # NoGraph
    /\ multigraph.edgeCount >= 2
    /\ subgraph.edgeCount < graph.edgeCount
    /\ Len(subgraph.nodes) < Len(graph.nodes)

(* C13: a consecutive pair with a vertex id missing from the vertex table  *)
(* yields no arc and registers no vertex, no log entry tells of it and no  *)
(* error is raised; the other pairs of that segment and of later segments  *)
(* yield their arcs and vertices as usual.                                 *)
C13_UnregisteredPairSkipped ==
    (BuildReturned /\ SkippedPairs(input.ways) # {}) =>
        LET P == RegisteredPairs(input.ways)
            mirrored == {p \in P : input.ignoreOneways \/ ~input.ways[p[1]].oneway}
        IN  /\ SeqToSet(graph.nodes) =
                  UNION {{ForwardArc(input.ways, p).from, ForwardArc(input.ways, p).to} : p \in P}
            /\ {Shape(a) : a \in AllArcs(graph)} =
                  {ForwardArc(input.ways, p) : p \in P}
                     \cup {ReverseArc(input.ways, p) : p \in mirrored}
            /\ graph.edgeCount = Cardinality(P) + Cardinality(mirrored)
            /\ logs = ParseLogs(input.rev) \o BuildLogs(input.rev)
            /\ delivered = logs
            /\ error = NoError

\* a first segment whose only pair is skipped, followed by a segment that yields arcs
C13_Witness ==
    /\ BuildReturned
    /\ Len(input.ways) = 2
    /\ RegisteredPairs(input.ways) # {}
    /\ \A p \in RegisteredPairs(input.ways) : p[1] = 2
    /\ graph.edgeCount >= 2

\* the input is the square N-E-S-W-N of two-way sides, started at its first vertex N
SquareInput ==
    /\ input.ways = <<W(4, <<1, 2, 3, 4, 1>>, FALSE)>>
    /\ input.startPoint = NoStart
\* length of a side of the square
SideLength == haversineDistance(NodeLat(1), NodeLon(1), NodeLat(2), NodeLon(2))

(* C14: for the square with two-way sides of equal length, started at N,   *)
(* the pipeline returns a closed circuit of 4 arcs that visits all four    *)
(* vertices, a total distance of 4 side lengths and a U-turn count of 0.   *)
C14_SquareExample ==
    (SquareInput /\ pc = "returned") =>
        /\ startNode = 1
        /\ Len(circuit) = 4 + 1
        /\ circuit[1] = Last(circuit)
        /\ SeqToSet(circuit) = {1, 2, 3, 4}
        /\ result.stats.totalTraversals = 4
        /\ result.stats.totalDistanceM = 4 * SideLength
        /\ result.stats.uTurnCount = 0

\* the turn from the bearing `incoming` to the bearing `outgoing` is a U-turn
IsUTurn(incoming, outgoing) == Abs(NormalizeAngle(outgoing - incoming)) > 150
\* the builder's state on entry, for the graph g and the start vertex `start`
BuilderEntry(g, start) ==
    [graph |-> g, remainingEdges |-> CopyAdjacency(g),
     stack |-> <<[node |-> start, incomingBearing |-> NoBearing]>>, circuit |-> <<>>]
(* In the run of the builder from the state b on, every branch point (a    *)
(* vertex entered with a known bearing where several arcs remain) offers   *)
(* an arc that is no U-turn.                                               *)
RECURSIVE EveryBranchHasAlternative(_, _)
EveryBranchHasAlternative(b, penalties) ==
    IF Len(b.stack) = 0
    THEN TRUE
    ELSE LET top == Last(b.stack)
             edges == Remaining(b.remainingEdges, top.node)
         IN  /\ (top.incomingBearing # NoBearing /\ Len(edges) > 1) =>
                    \E i \in 1..Len(edges) : ~IsUTurn(top.incomingBearing, edges[i].bearing)
             /\ EveryBranchHasAlternative(hierholzerWithTurnPreference(b, penalties), penalties)
\* the second call differs from the first in the penalties at most
SameInputButPenalties ==
    /\ lastOutcome.done
    /\ lastOutcome.input.rev = input.rev
    /\ lastOutcome.input.ways = input.ways
    /\ lastOutcome.input.ignoreOneways = input.ignoreOneways
    /\ lastOutcome.input.startPoint = input.startPoint

(* C15: two runs of the circuit builder and the statistics on the same     *)
(* graph and start vertex, with the same straight, right and left          *)
(* penalties, in both of which every branch point offers an arc that is    *)
(* no U-turn: the run with the larger uTurn penalty reports no more        *)
(* U-turns than the run with the smaller one.                              *)
C15_UTurnPenaltyMonotone ==
    (/\ pc = "returned"
     /\ input.rev = 2
     /\ SameInputButPenalties
     /\ lastOutcome.error = NoError
     /\ lastOutcome.input.penalties.straight = input.penalties.straight
     /\ lastOutcome.input.penalties.rightTurn = input.penalties.rightTurn
     /\ lastOutcome.input.penalties.leftTurn = input.penalties.leftTurn
     /\ lastOutcome.input.penalties.uTurn < input.penalties.uTurn
     /\ EveryBranchHasAlternative(BuilderEntry(subgraph, startNode), input.penalties)
     /\ EveryBranchHasAlternative(BuilderEntry(subgraph, startNode), lastOutcome.input.penalties))
    => result.stats.uTurnCount <= lastOutcome.result.stats.uTurnCount

\* the current call of processRoute has returned or thrown
RunEnded == pc \in {"returned", "done", "failed", "handled"}
\* a track file with the characters of its times left out
WithoutTime(doc) ==
    [i \in 1..Len(doc) |->
        IF doc[i].kind = "text" /\ doc[i].attrs # <<>>
        THEN [doc[i] EXCEPT !.attrs = <<>>]
        ELSE doc[i]]

DigitValue(c) == CHOOSE d \in 0..9 : Digits[d + 1] = c
RECURSIVE ParseNat(_, _, _)
ParseNat(chars, i, acc) ==
    IF i > Len(chars) THEN acc ELSE ParseNat(chars, i + 1, 10 * acc + DigitValue(chars[i]))
ParseNumber(chars) ==
    IF Len(chars) > 0 /\ chars[1] = "-" THEN -ParseNat(chars, 2, 0) ELSE ParseNat(chars, 1, 0)

(* An XML reader of the track file from piece i on: `open` is the stack of *)
(* open elements.  It fails on a stray `&` or `<` and on tags that do not  *)
(* match, and collects the trackpoints that are children of a track        *)
(* segment, in document order, each as <<lat, lon>>; segments counts the   *)
(* track segments.                                                         *)
RECURSIVE ReadTrack(_, _, _, _)
ReadTrack(doc, i, open, r) ==
    IF i > Len(doc)
    THEN [r EXCEPT !.ok = (Len(open) = 0)]
    ELSE LET piece == doc[i]
         IN  CASE piece.kind = "stray" -> [r EXCEPT !.ok = FALSE]
               [] piece.kind = "text" -> ReadTrack(doc, i + 1, open, r)
               [] piece.kind = "open" ->
                     ReadTrack(doc, i + 1, Append(open, piece.name),
                               IF piece.name = "trkpt" /\ Len(open) > 0 /\ Last(open) = "trkseg"
                               THEN [r EXCEPT !.points =
                                        Append(@, <<ParseNumber(piece.attrs[1]),
                                                    ParseNumber(piece.attrs[2])>>)]
                               ELSE IF piece.name = "trkseg"
                                    THEN [r EXCEPT !.segments = @ + 1]
                                    ELSE r)
               [] OTHER ->
                     IF Len(open) > 0 /\ Last(open) = piece.name
                     THEN ReadTrack(doc, i + 1, Front(open), r)
                     ELSE [r EXCEPT !.ok = FALSE]
ReadTrackpoints(doc) == ReadTrack(doc, 1, <<>>, [ok |-> TRUE, points |-> <<>>, segments |-> 0])

(* C17: the generated track file holds one trackpoint per circuit entry,   *)
(* in circuit order, inside a single track segment, and reading the        *)
(* trackpoints back gives the coordinate sequence the file was generated   *)
(* from, whatever the circuit and the filename.                            *)
C17_TrackpointsReadBack ==
    (pc = "called" /\ unit.fn = "generateGPX") =>
        LET r == ReadTrackpoints(unit.ret)
        IN  /\ r.ok
            /\ r.segments = 1
            /\ Len(r.points) = Len(unit.circuit)
            /\ r.points = unit.points

\* least element of a non-empty set of numbers
Minimum(S) == CHOOSE m \in S : \A x \in S : m <= x
(* Least cumulative arc length over the directed walks of at most k arcs   *)
(* from u to v, Infinity when there is none.                               *)
RECURSIVE WalkDistance(_, _, _, _)
WalkDistance(g, u, v, k) ==
    IF u = v THEN 0
    ELSE IF k = 0 \/ Len(EdgesOf(g, u)) = 0 THEN Infinity
    ELSE Minimum({LET rest == WalkDistance(g, EdgesOf(g, u)[i].to, v, k - 1)
                  IN  IF rest >= Infinity THEN Infinity ELSE EdgesOf(g, u)[i].length + rest :
                  i \in 1..Len(EdgesOf(g, u))})
ShortestDistance(g, u, v) == WalkDistance(g, u, v, Len(g.nodes))
\* consecutive vertices of the path are joined by arcs of g; the length of such a path
IsPath(g, path) ==
    \A i \in 1..(Len(path) - 1) : ArcsBetween(g, path[i], path[i + 1]) > 0
PathLength(g, path) ==
    SumSeq([i \in 1..(Len(path) - 1) |->
               Minimum({EdgesOf(g, path[i])[j].length :
                           j \in {k \in 1..Len(EdgesOf(g, path[i])) :
                                     EdgesOf(g, path[i])[k].to = path[i + 1]}})], 1)
\* the shortest paths of g from u to v
ShortestPaths(g, u, v) ==
    {path \in UNION {[1..n -> SeqToSet(g.nodes)] : n \in 1..Len(g.nodes)} :
        /\ path[1] = u
        /\ Last(path) = v
        /\ IsPath(g, path)
        /\ PathLength(g, path) = ShortestDistance(g, u, v)}

(* The pairs of `pairs` follow the greedy rule from the odd vertex at      *)
(* index i on: a vertex not yet matched, from which another unmatched odd  *)
(* vertex can be reached, is paired with one at least distance.            *)
RECURSIVE GreedyNearest(_, _, _, _, _)
GreedyNearest(g, odd, pairs, i, matched) ==
    IF i > Len(odd) THEN TRUE
    ELSE IF odd[i] \in matched THEN GreedyNearest(g, odd, pairs, i + 1, matched)
    ELSE LET cands == {j \in (i + 1)..Len(odd) :
                          /\ odd[j] \notin matched
                          /\ ShortestDistance(g, odd[i], odd[j]) < Infinity}
             mine == {m \in 1..Len(pairs) : pairs[m][1] = odd[i]}
         IN  IF cands = {}
             THEN mine = {} /\ GreedyNearest(g, odd, pairs, i + 1, matched)
             ELSE \E m \in mine :
                     /\ \E j \in cands :
                           /\ pairs[m][2] = odd[j]
                           /\ \A k \in cands : ShortestDistance(g, odd[i], odd[j])
                                                  <= ShortestDistance(g, odd[i], odd[k])
                     /\ GreedyNearest(g, odd, pairs, i + 1,
                                      matched \cup {odd[i], pairs[m][2]})

(* C18: minimumWeightMatching takes the odd-degree vertices in input       *)
(* order and pairs each one not yet matched with the unmatched odd vertex  *)
(* at least shortest-path distance; a vertex from which an unmatched odd   *)
(* vertex can be reached ends up in a pair.                                *)
C18_GreedyNearestPartner ==
    (input.rev = 1 /\ pc = "multigraph") =>
        GreedyNearest(subgraph, oddNodes, matching, 1, {})

(* C19: dijkstra(graph, start, end) returns the least cumulative arc       *)
(* length over the directed paths from start to end (0 for start = end,    *)
(* Infinity only when end cannot be reached), and a path from start to end *)
(* along arcs of the graph whose lengths sum to that distance.             *)
C19_ShortestPath ==
    (pc = "called" /\ unit.fn = "dijkstra") =>
        LET d == ShortestDistance(graph, unit.start, unit.end)
        IN  /\ unit.ret.distance = d
            /\ d < Infinity =>
                  /\ unit.ret.path[1] = unit.start
                  /\ Last(unit.ret.path) = unit.end
                  /\ IsPath(graph, unit.ret.path)
                  /\ PathLength(graph, unit.ret.path) = d

(* C20: for a matched pair (u, v), with v reachable from u, createMultigraph *)
(* adds one duplicate of every arc along a shortest path from u to v and   *)
(* nothing else; the parity of the number of outgoing arcs is then flipped *)
(* at u and at v and unchanged at the interior vertices of the path.       *)
C20_DuplicatesAlongPath ==
    (/\ pc = "called"
     /\ unit.fn = "createMultigraph"
     /\ ShortestDistance(graph, unit.matching[1][1], unit.matching[1][2]) < Infinity) =>
        LET u == unit.matching[1][1]
            v == unit.matching[1][2]
        IN  \E path \in ShortestPaths(graph, u, v) :
                /\ \A x, y \in SeqToSet(graph.nodes) :
                      ArcsBetween(unit.ret, x, y) =
                          ArcsBetween(graph, x, y) + HopsBetween(path, x, y)
                /\ Degree(unit.ret, u) % 2 # Degree(graph, u) % 2
                /\ Degree(unit.ret, v) % 2 # Degree(graph, v) % 2
                /\ \A i \in 2..(Len(path) - 1) :
                      Degree(unit.ret, path[i]) % 2 = Degree(graph, path[i]) % 2

\* ------------------------------------------------------------ arc selection
\* a step of hierholzerWithTurnPreference that consumes an arc
ArcConsumed == pc = "loop" /\ input.rev = 2 /\ Len(stack') = Len(stack) + 1

(* C21: at every step of hierholzerWithTurnPreference that consumes an arc *)
(* while more than one arc remains at the current vertex and an incoming   *)
(* bearing is known, the consumed arc has the minimum turn score among the *)
(* remaining arcs and is the earliest of the arcs tied at the minimum;     *)
(* otherwise the first remaining arc is consumed.  The consumed arc is the *)
(* one removed from the working copy and the one the stack entry is made   *)
(* from.                                                                   *)
C21_MinimumScoreEarliestTie ==
    [][ArcConsumed =>
          LET top == Last(stack)
              edges == Remaining(remainingEdges, top.node)
              score(i) == calculateTurnScore(top.incomingBearing, edges[i].bearing,
                                             input.penalties)
          IN  \E i \in 1..Len(edges) :
                 /\ remainingEdges'[top.node].list = RemoveAt(edges, i)
                 /\ Last(stack') = [node |-> edges[i].to,
                                    incomingBearing |-> edges[i].bearing]
                 /\ IF top.incomingBearing # NoBearing /\ Len(edges) > 1
                    THEN /\ \A j \in 1..Len(edges) : score(i) <= score(j)
                         /\ \A j \in 1..(i - 1) : score(j) > score(i)
                    ELSE i = 1]_vars

(* an arc has just been consumed at a vertex entered with a known bearing, *)
(* where an arc of the same score and an arc of a higher score remain      *)
C21_Witness ==
    /\ pc = "loop"
    /\ input.rev = 2
    /\ Len(stack) >= 3
    /\ LET top == Last(stack)
           from == stack[Len(stack) - 1]
           left == Remaining(remainingEdges, from.node)
           score(a) == calculateTurnScore(from.incomingBearing, a.bearing, input.penalties)
       IN  /\ from.incomingBearing # NoBearing
           /\ \E a \in SeqToSet(EdgesOf(subgraph, from.node)) :
                 /\ a.to = top.node
                 /\ a.bearing = top.incomingBearing
                 /\ ~InSeq(a, left)
                 /\ \E r \in SeqToSet(left) : score(r) = score(a)
                 /\ \E r \in SeqToSet(left) : score(r) > score(a)

\* --------------------------------------------------------------- turn score
\* outgoing - incoming taken into (-180, 180]
TurnAngle(incoming, outgoing) ==
    LET d == (outgoing - incoming) % 360
    IN  IF d > 180 THEN d - 360 ELSE d
\* the four-way rule on the turn angle a
PiecewiseScore(a, penalties) ==
    CASE Abs(a) > 150 -> 500 + (Abs(a) - 150) + penalties.uTurn
      [] Abs(a) <= 150 /\ Abs(a) <= 20 -> Abs(a) + penalties.straight
      [] Abs(a) <= 150 /\ Abs(a) > 20 /\ a > 0 -> 20 + a + penalties.rightTurn
      [] Abs(a) <= 150 /\ Abs(a) > 20 /\ a <= 0 -> 160 + Abs(a) + penalties.leftTurn
ScoreReturned == pc = "called" /\ unit.fn = "calculateTurnScore"

C23_TurnAngleHalfOpen ==
    ScoreReturned => unit.turnAngle > -180 /\ unit.turnAngle <= 180

(* C23 as amended: the normalized turn angle lies in [-180, 180] and       *)
(* differs from outgoing - incoming by a multiple of 360; it is -180       *)
(* exactly when outgoing = incoming - 180, and 180 exactly when            *)
(* outgoing = incoming + 180.                                              *)
C23_TurnAngleClosed ==
    ScoreReturned =>
        /\ unit.turnAngle >= -180 /\ unit.turnAngle <= 180
        /\ (unit.turnAngle - (unit.outgoing - unit.incoming)) % 360 = 0
        /\ (unit.turnAngle = -180) = (unit.outgoing = unit.incoming - 180)
        /\ (unit.turnAngle = 180) = (unit.outgoing = unit.incoming + 180)

\* the loops leave a difference of exactly -180 as it is
C23_Witness ==
    /\ ScoreReturned
    /\ unit.outgoing - unit.incoming = -180
    /\ unit.turnAngle = -180

\* ---------------------------------------------------------- turn counters
StatsReturned == pc = "called" /\ unit.fn = "calculateRouteStats"
\* the three turn counters calculateRouteStats returns for the street
TurnCounts(bearings) ==
    LET r == calculateRouteStats(StreetRoute(bearings), StreetGraph(bearings), 1, 0, 1)
    IN  [uTurn |-> r.uTurnCount, right |-> r.rightTurnCount, left |-> r.leftTurnCount]
\* the counter the loop increments at hop k: what the first k hops count
\* beyond the first k - 1
CountedAt(bearings, k) ==
    LET upto == TurnCounts(SubSeq(bearings, 1, k))
        before == TurnCounts(SubSeq(bearings, 1, k - 1))
    IN  IF upto.uTurn > before.uTurn THEN "uTurn"
        ELSE IF upto.right > before.right THEN "right"
        ELSE IF upto.left > before.left THEN "left"
        ELSE "none"
\* the class of a turn angle under the thresholds of the circuit builder
TurnClass(a) ==
    IF Abs(a) > 150 THEN "uTurn"
    ELSE IF a > 20 THEN "right"
    ELSE IF a < -20 THEN "left"
    ELSE "none"

(* C24: every turn calculateRouteStats counts at a hop is the class of the *)
(* angle between the bearing of that hop and the bearing of the hop        *)
(* immediately before it: more than 150 degrees in magnitude a U-turn,     *)
(* above 20 a right turn, below -20 a left turn, within 20 not counted.    *)
C24_ClassifiedFromConsecutiveHops ==
    StatsReturned =>
        /\ unit.ret.uTurnCount = TurnCounts(unit.bearings).uTurn
        /\ \A k \in 1..Len(unit.bearings) :
              CountedAt(unit.bearings, k) # "none" =>
                  /\ k > 1
                  /\ CountedAt(unit.bearings, k) =
                         TurnClass(TurnAngle(unit.bearings[k - 1], unit.bearings[k]))

(* C25: calculateRouteStats increments a turn counter at a hop only when   *)
(* the bearing of that hop differs from the bearing of the hop before it,  *)
(* so the hops of a run of identical bearing increment the right, left and *)
(* U-turn counters at most once together.                                  *)
C25_OneEventPerRun ==
    StatsReturned =>
        LET b == unit.bearings
            counted == {k \in 1..Len(b) : CountedAt(b, k) # "none"}
        IN  /\ \A k \in counted : k > 1 /\ b[k] # b[k - 1]
            /\ \A i, j \in counted : i < j => \E m \in i..j : b[m] # b[i]
            /\ unit.ret.uTurnCount + unit.ret.rightTurnCount + unit.ret.leftTurnCount
                  = Cardinality(counted)

\* a run of two hops of one bearing whose first hop was counted as a turn
C25_Witness ==
    /\ StatsReturned
    /\ \E k \in 2..(Len(unit.bearings) - 1) :
          /\ unit.bearings[k + 1] = unit.bearings[k]
          /\ CountedAt(unit.bearings, k) # "none"
          /\ CountedAt(unit.bearings, k + 1) = "none"

\* ------------------------------------------------------------- termination
\* the vertices whose remaining arcs are all consumed
Exhausted(n) == Remaining(remainingEdges, n) = <<>>
\* the builder has been left with an empty work stack
StackEmptied == pc # "loop" => stack = <<>>
\* every vertex in the output had no remaining arc when it was appended
\* (arcs are only ever consumed, so it has none afterwards either)
AppendedWhenExhausted == pc = "loop" => \A n \in SeqToSet(circuit) : Exhausted(n)
\* once the builder has returned, no vertex reachable from the start has an arc left
NothingLeftReachable ==
    BuilderReturned => \A n \in ReachFrom(HandedGraph, {startNode}) : Exhausted(n)

(* C26: the circuit builder terminates on every finite graph: whenever the *)
(* builder has been left its work stack is empty, a vertex is in the       *)
(* output only if it has no remaining unconsumed outgoing arc, and at      *)
(* termination no vertex reachable from the start has an unconsumed        *)
(* outgoing arc.                                                           *)
C26_BuilderTerminates ==
    /\ StackEmptied
    /\ AppendedWhenExhausted
    /\ NothingLeftReachable

\* ----------------------------------------------------------- edge reports
\* the edges of animator a whose far end the truck has reached
EdgesPassed(a) == {k \in 0..(a.n - 2) : Ticks * (k + 1) <= a.currentWaypointIndex}
\* how often onEdgeComplete was called with edge key k
Reports(a, k) == Cardinality({j \in 1..Len(a.reported) : a.reported[j] = k})

(* C27: every edge the truck of a RouteAnimator has passed is in           *)
(* completedEdges and was reported through onEdgeComplete exactly once,    *)
(* for every playback speed and frame interval, and no edge is reported    *)
(* twice; so when progress is 1 every edge of the route is completed and   *)
(* reported.                                                               *)
C27_PassedEdgesReportedOnce ==
    \A i \in 1..Len(animators) :
        LET a == animators[i]
        IN  /\ \A k \in EdgesPassed(a) : k \in a.completedEdges /\ Reports(a, k) = 1
            /\ \A k \in 0..(a.n - 1) : Reports(a, k) <= 1
            /\ a.progress = 100 => \A k \in 0..(a.n - 2) : k \in a.completedEdges

\* --------------------------------------------------------- one animator
\* the animators that are animating
Animating == {i \in 1..Len(animators) : animators[i].isPlaying}
\* the last button pressed was Pause or Reset, and this step presses none
StillStopped == lastPress \in {"pause", "reset"} /\ lastPress' = lastPress
\* a progress update reached the component in this step
ProgressShown == Frame /\ <<truckMarker, animationState, rendered>>' #
                          <<truckMarker, animationState, rendered>>

(* C28: in AnimatedLeafletMap at most one RouteAnimator is animating at    *)
(* any time, and under every interleaving of Play, Pause, Reset, speed     *)
(* changes, route changes and animation frames, after Pause or Reset was   *)
(* pressed no animation frame moves the truck marker or changes the        *)
(* displayed animation state until Play is pressed.                        *)
C28_OneAnimatorStopsOnPause ==
    /\ [](Cardinality(Animating) <= 1)
    /\ [][StillStopped => ~ProgressShown]_vars

\* ==================================================== Home: file and penalties
\* FileReaders that may be loading at once
MaxReaders == 2

\* files the user can choose: a name and the text readAsText delivers
Files == {[name |-> <<"a", ".osm">>, text |-> "A"],
          [name |-> <<"b", ".xml">>, text |-> "B"],
          [name |-> <<"notes", ".txt">>, text |-> "N"]}

\* name.endsWith(".xml") || name.endsWith(".osm")
IsOsmName(name) == name[Len(name)] \in {".xml", ".osm"}

\* positions the sliders of TurnPenaltiesConfig are moved to (inside their ranges)
SliderValues == [straight |-> {0, 5}, rightTurn |-> {10, 50}, leftTurn |-> {50, 150},
                 uTurn |-> {500}]

\* the variables of the process that Home does not set
engineVars == <<input, pc, graph, subgraph, componentCount, oddNodes, matching, multigraph,
                startNode, remainingEdges, stack, circuit, result, error, logs, delivered,
                now, lastOutcome, unit>>

(* useCallback(handleGenerate, deps): the closure is made again in a       *)
(* render in which a dependency differs; revision 1 leaves penalties out   *)
(* of the dependencies, revision 2 lists it.                               *)
Memoized(depsChanged, newPenalties) ==
    IF depsChanged \/ (homeRev = 2 /\ newPenalties # ctxPenalties)
    THEN [penalties |-> newPenalties]
    ELSE memo

\* Home of either revision, mounted inside the TurnPenaltiesProvider
HomeInit ==
    /\ input = [rev |-> 2, ways |-> <<>>, ignoreOneways |-> FALSE, startPoint |-> NoStart,
                penalties |-> DefaultPenalties]
    /\ pc = "client"
    /\ graph = NoGraph
    /\ subgraph = NoGraph
    /\ componentCount = 0
    /\ oddNodes = <<>>
    /\ matching = <<>>
    /\ multigraph = NoGraph
    /\ startNode = Undefined
    /\ remainingEdges = <<>>
    /\ stack = <<>>
    /\ circuit = <<>>
    /\ result = NoResult
    /\ error = NoError
    /\ logs = <<>>
    /\ delivered = <<>>
    /\ homeLogs = <<>>
    /\ homeResult = NoResult
    /\ isProcessing = FALSE
    /\ now = 0
    /\ lastOutcome = NoOutcome
    /\ unit = NoCall
    /\ route = None
    /\ mapRef = FALSE
    /\ animators = <<>>
    /\ animatorRef = 0
    /\ truckMarker = None
    /\ animationState = None
    /\ rendered = None
    /\ speed = 1
    /\ lastPress = "none"
    /\ homeRev \in {1, 2}
    /\ file = None
    /\ fileContent = None
    /\ readers = <<>>
    /\ ctxPenalties = DefaultPenalties
    /\ homeIgnoreOneways = TRUE
    /\ memo = [penalties |-> DefaultPenalties]
    /\ passed = None

(* handleFileSelect, and handleDrop, which repeats its steps (revision 1)  *)
(* or calls it (revision 2): a file with another extension is refused;     *)
(* otherwise setFile, setResult(null), setLogs([]) and a new FileReader    *)
(* starts reading. fileContent is left as it is.                           *)
handleFileSelect ==
    /\ pc = "client"
    /\ Len(readers) < MaxReaders
    /\ \E selectedFile \in Files :
          IF ~IsOsmName(selectedFile.name)
          THEN UNCHANGED <<file, homeResult, homeLogs, readers>>
          ELSE /\ file' = Some(selectedFile)
               /\ homeResult' = NoResult
               /\ homeLogs' = <<>>
               /\ readers' = Append(readers, selectedFile)
    /\ UNCHANGED <<homeRev, fileContent, ctxPenalties, homeIgnoreOneways, memo, passed,
                   isProcessing, animVars, engineVars>>

(* reader.onload of one of the pending readers, in any order:              *)
(* setFileContent(e.target.result).                                        *)
onload ==
    /\ pc = "client"
    /\ \E i \in 1..Len(readers) :
          /\ fileContent' = Some(readers[i].text)
          /\ readers' = SubSeq(readers, 1, i - 1) \o SubSeq(readers, i + 1, Len(readers))
    /\ memo' = Memoized(fileContent' # fileContent, ctxPenalties)
    /\ UNCHANGED <<homeRev, file, ctxPenalties, homeIgnoreOneways, passed, homeResult, homeLogs,
                   isProcessing, animVars, engineVars>>

\* the one-way switch: setIgnoreOneways(checked)
setIgnoreOneways ==
    /\ pc = "client"
    /\ homeIgnoreOneways' = ~homeIgnoreOneways
    /\ memo' = Memoized(TRUE, ctxPenalties)
    /\ UNCHANGED <<homeRev, file, fileContent, readers, ctxPenalties, passed, homeResult,
                   homeLogs, isProcessing, animVars, engineVars>>

\* a slider of TurnPenaltiesConfig: updatePenalty(key, value[0])
updatePenalty ==
    /\ pc = "client"
    /\ \E key \in DOMAIN SliderValues :
          \E value \in SliderValues[key] :
             ctxPenalties' = [ctxPenalties EXCEPT ![key] = value]
    /\ memo' = Memoized(FALSE, ctxPenalties')
    /\ UNCHANGED <<homeRev, file, fileContent, readers, homeIgnoreOneways, passed, homeResult,
                   homeLogs, isProcessing, animVars, engineVars>>

\* the button of TurnPenaltiesConfig: resetToDefaults()
resetToDefaults ==
    /\ pc = "client"
    /\ ctxPenalties' = DefaultPenalties
    /\ memo' = Memoized(FALSE, ctxPenalties')
    /\ UNCHANGED <<homeRev, file, fileContent, readers, homeIgnoreOneways, passed, homeResult,
                   homeLogs, isProcessing, animVars, engineVars>>

(* Home's handleReset: the file, its content, the result, the logs and the *)
(* configuration are cleared; readers still loading are not aborted.       *)
Home_handleReset ==
    /\ pc = "client"
    /\ file' = None
    /\ fileContent' = None
    /\ homeResult' = NoResult
    /\ homeLogs' = <<>>
    /\ homeIgnoreOneways' = TRUE
    /\ memo' = Memoized(fileContent # None \/ ~homeIgnoreOneways, ctxPenalties)
    /\ UNCHANGED <<homeRev, readers, ctxPenalties, passed, isProcessing, animVars, engineVars>>

\* the Generate button is disabled
GenerateDisabled ==
    \/ isProcessing
    \/ IF homeRev = 1 THEN fileContent = None ELSE file = None

(* handleGenerate: the memoized closure runs; it returns at once without   *)
(* content, otherwise it calls processRoute with the content, the          *)
(* configuration and the penalties it holds.                               *)
handleGenerate ==
    /\ pc = "client"
    /\ ~GenerateDisabled
    /\ IF fileContent = None
       THEN UNCHANGED <<isProcessing, homeLogs, homeResult, passed>>
       ELSE /\ isProcessing' = TRUE
            /\ homeLogs' = <<>>
            /\ homeResult' = NoResult
            /\ passed' = Some([osmContent |-> fileContent[1],
                               ignoreOneways |-> homeIgnoreOneways,
                               penalties |-> memo.penalties])
    /\ UNCHANGED <<homeRev, file, fileContent, readers, ctxPenalties, homeIgnoreOneways, memo,
                   animVars, engineVars>>

\* processRoute settles: setResult(result), or an error entry; setIsProcessing(false)
settle ==
    /\ pc = "client"
    /\ isProcessing
    /\ \/ homeResult' = [NoResult EXCEPT !.gpxContent = <<passed[1].osmContent>>]
          /\ UNCHANGED homeLogs
       \/ homeLogs' = homeLogs \o <<ErrorEntry("failed")>>
          /\ UNCHANGED homeResult
    /\ isProcessing' = FALSE
    /\ UNCHANGED <<homeVars, animVars, engineVars>>

HomeNext ==
    \/ handleFileSelect
    \/ onload
    \/ setIgnoreOneways
    \/ updatePenalty
    \/ resetToDefaults
    \/ Home_handleReset
    \/ handleGenerate
    \/ settle

HomeSpec == HomeInit /\ [][HomeNext]_vars

\* ------------------------------------------------- what Generate is given
\* the text of the file shown as selected
ShownText == IF file = None THEN None ELSE Some(file[1].text)
\* this step is a click on Generate that calls processRoute
GenerateClicked == ~isProcessing /\ isProcessing'

(* C29: in Home, under every interleaving of file selections, file drops   *)
(* and FileReader load completions, fileContent, when it is not null, is   *)
(* the text of the file held in the file state, and Generate gives         *)
(* processRoute the text of the file shown as selected.                    *)
C29_ContentOfSelectedFile ==
    /\ [](fileContent # None => fileContent = ShownText)
    /\ [][GenerateClicked => Some(passed'[1].osmContent) = ShownText]_vars

(* C30: the turn penalties that handleGenerate gives processRoute are the  *)
(* value the TurnPenalties context holds when Generate is clicked, after   *)
(* every sequence of slider updates, resets to defaults and other          *)
(* configuration changes.                                                  *)
C30_PenaltiesOfTheContext ==
    [][GenerateClicked => passed'[1].penalties = ctxPenalties]_vars
=============================================================================
